---- MODULE Spec2Model ----
(***************************************************************************)
(* shadowdog: an incremental artifact build daemon driven by filesystem    *)
(* events.  The module models, from the TypeScript sources,                *)
(*   - the daemon (watchers, debounce, pause/resume, computeArtifact,      *)
(*     the pending-process list and killPendingTasks),                     *)
(*   - the MCP plugin's pause bookkeeping,                                 *)
(*   - the TaskRunner middleware chain with the local-cache middleware,    *)
(*   - the Generator's walk over a Task tree,                              *)
(*   - the lock-file writer's write promise.                               *)
(* Each component has its own specification over the shared variables.     *)
(***************************************************************************)
EXTENDS Integers, Sequences, FiniteSets, TLC

\* ------------------------------------------------------------------------
\* Bounds of the model
\* ------------------------------------------------------------------------
\* external stimuli delivered to the daemon (raw watch events and tool calls)
MaxInputs == 3

\* middleware plugins registered before the terminal executor
MaxMiddlewares == 2

\* overlapping calls of the lock file writer
MaxCallers == 3

\* events delivered to the lock file listener in one run
MaxEvents == 6

\* versions of the configuration file loaded in one run
MaxConfigs == 2

\* changes of the configuration file under a running daemon
MaxChanges == 3

\* commands given to the dependency layering plugin
MaxCommands == 3

\* ------------------------------------------------------------------------
\* Configuration (shadowdog.json): watchers, their files and commands
\* ------------------------------------------------------------------------
NoPath == "-"

\* config.watchers: each watcher has watched files and an ordered command list;
\* every command declares one artifact, named after the command
Watchers == {1}

WatcherFiles == <<{"f1", "f2"}>>

WatcherCommands == <<<<"a">>>>

Paths == UNION {WatcherFiles[w] : w \in Watchers}

Artifacts == {WatcherCommands[w][i] : w \in Watchers, i \in 1..1}

\* chokidar event names the daemon subscribes to: 'add', 'change', 'unlink'
Kinds == {"add", "change", "unlink"}

VARIABLES
  \* ---- daemon (runDaemon / setupWatchers)
  plugins,             \* config.plugins: middleware plugins in use
  isPaused,            \* runDaemon: let isPaused
  pendingTasks,        \* the array runDaemon's variable pendingTasks denotes
  watcherTasks,        \* the array setupWatchers' parameter pendingTasks denotes
  sameArray,           \* TRUE iff the two names denote one array object
  timers,              \* pending trailing call of each debounced handler
  runs,                \* the pipelines started so far, by pid
  lastEnd,             \* pid of the run of the latest 'end' event (0: none)
  \* ---- shadowdog-mcp plugin
  mcpPaused,           \* plugin: let isPaused
  pendingChangedFiles, \* plugin: let pendingChangedFiles
  \* ---- environment and history
  nInputs,             \* stimuli delivered so far
  request,             \* the kind of the stimulus delivered last
  droppedChanges,      \* paths whose handler returned because of the pause
  isShuttingDown,      \* runDaemon: let isShuttingDown
  signals,             \* shutdown triggers received so far
  \* ---- one TaskRunner.execute() with the local-cache middleware
  middlewares,         \* TaskRunner.middlewares, the terminal executor last
  index,               \* execute: let index
  isAborted,           \* execute: let isAborted
  frames,              \* the invocation of each middleware: pc and awaited child
  entered,             \* positions of the middlewares entered, in order of entry
  execution,           \* "idle", "running", "resolved" or "rejected"
  environment,         \* process.env: SHADOWDOG_DISABLE_LOCAL_CACHE, ..._READ, ..._WRITE
  options,             \* the plugin's options: read, write
  cacheObjects,        \* per artifact: the <key>.tar.gz found by the lookup
  outputs,             \* per artifact: the file on disk
  unpacked,            \* artifacts decompressed over the on-disk file
  packed,              \* artifacts compressed into the cache
  commandRuns,         \* times runTask spawned the shell command
  generation,          \* 1 during a generate, 2 during the one that follows it
  \* ---- the CLI's generate()
  taskTree,            \* finalTask, the Task tree handed to processTask
  taskStatus,          \* per task: "pending", "running", "resolved", "rejected"
  taskEvents,          \* per task: the events emitted for its run, in order
  artifacts,           \* per command task: its declared artifact path on disk
  watch,               \* the CLI's --watch flag
  cliPhase,            \* "boot", "generating", "daemon", "exiting", "exited"
  exitCode,            \* the status the process exits with
  entryPoint,          \* the executable: "cli" or "ui-main"
  exitCalls,           \* times exit() invoked the 'exit' subscribers
  \* ---- lock file writer
  lockWriter,          \* which writer of the lock file is in use
  writePromise,        \* let writePromise: 0 for null, else the caller that made it
  callerPc,            \* per caller: where its call of the writer stands
  awaited,             \* per caller: the write promise it waits for
  settledWrites,       \* the write promises that are settled
  lockFile,            \* shadowdog-lock.json: the callers whose artifacts it holds
  existing,            \* per caller: the lock file content its write read
  \* ---- lock file listener
  emitterPhase,        \* where the CLI stands: which events it can emit next
  config,              \* let config: 0 for null, else the version loaded
  lockFilePath,        \* let lockFilePath: "" until it is initialised
  isInGenerateMode,    \* let isInGenerateMode
  lockContent,         \* shadowdog-lock.json on disk
  rebuilds,            \* times the lock file was written by regenerateLockFile
  lastEvent,           \* the event delivered last
  nEvents,             \* events delivered so far
  \* ---- configuration reload
  fileVersion,         \* the version of shadowdog.json on disk
  invalidVersions,     \* the versions that fail to load or validate
  currentConfig,       \* runDaemon: let currentConfig (a version)
  currentWatchers,     \* runDaemon: let currentWatchers (the version they watch for)
  watching,            \* the versions whose watchers are open
  restarts,            \* reloads between closing the watchers and setting up new ones
  debouncing,          \* the versions whose watchers have a trailing handler call pending
  pipelines,           \* pipelines started since the last change of the file
  \* ---- dependency layering (shadowdog-tree)
  commandTasks,        \* the command tasks of the parallel task given to the plugin
  byLevel,             \* structure.byLevel: level -> the tasks of that level
  treePhase,           \* "plugin", "walking", "walked" or "circular"
  layer,               \* the parallel layer the serial walk is at
  begun,               \* the commands that have emitted begin
  finished,            \* the commands whose run has settled
  thrown,              \* the words of the message of the Error the plugin threw
  \* ---- command plugins (generate)
  originalTask,        \* generate: const task, the parallel of every command
  finalTask,           \* generate: the accumulator of plugins.reduce
  commandPlugins,      \* the command plugins still to be applied, in order
  shadowdogTag,        \* process.env.SHADOWDOG_TAG, "" when unset
  pluginThrew,         \* a plugin's command threw: generate rejected
  \* ---- cache keys (computeCache)
  cacheInputs,         \* the arguments and the files and environment of two calls
  cacheKeys,           \* what the two calls returned, <<>> before they ran
  \* ---- PID lock (shadowdog-lock)
  pidLock,             \* the lock file: "none", or whose pid it holds: "self", "other"
  counter,             \* shadowdog-lock: let counter
  lockRuns,            \* per command: "idle", "begun", "running", "blocked", "done"
  lockProcess,         \* this process: "running", "exiting" (exit was called), "exited"
  exitStatus,          \* the code of the pending or completed process.exit, -1 if none
  lockFirst,           \* the lock middleware is the first of the chain
  \* ---- temporary extraction directories (restoreCache)
  now,                 \* Date.now(), in milliseconds
  restores,            \* per invocation: where it is and the directory it extracts to
  \* ---- rebase guard (shadowdog-git)
  rebasing,            \* .git/rebase-merge exists
  timeoutId,           \* shadowdog-git: let timeoutId, "null" or "set"
  intervals,           \* the interval timers of the plugin that are armed
  gitPending,          \* shadowdog-git: let pendingChangedFiles
  touches,             \* per path: utimesSync calls since it was last made pending
  onDisk,              \* per path: the file exists (it was not the one deleted)
  gitProcess,          \* "running", or "crashed" by an unhandled rejection
  nGitEvents,          \* pipelines that reached the middleware
  nRebases             \* rebases started

daemonVars == <<plugins, isPaused, pendingTasks, watcherTasks, sameArray, timers,
                runs, lastEnd, mcpPaused, pendingChangedFiles, nInputs, request,
                droppedChanges, isShuttingDown, signals>>

runnerVars == <<middlewares, index, isAborted, frames, entered, execution,
                environment, options, cacheObjects, outputs, unpacked, packed,
                commandRuns, generation>>

generatorVars == <<taskTree, taskStatus, taskEvents, artifacts, watch, cliPhase, exitCode,
                   entryPoint, exitCalls>>

lockVars == <<lockWriter, writePromise, callerPc, awaited, settledWrites, lockFile,
              existing>>

listenerVars == <<emitterPhase, config, lockFilePath, isInGenerateMode, lockContent,
                  rebuilds, lastEvent, nEvents>>

gitVars == <<rebasing, timeoutId, intervals, gitPending, touches, onDisk, gitProcess, nGitEvents, nRebases>>

restoreVars == <<now, restores>>

pidLockVars == <<pidLock, counter, lockRuns, lockProcess, exitStatus, lockFirst>>

cacheKeyVars == <<cacheInputs, cacheKeys>>

pluginVars == <<originalTask, finalTask, commandPlugins, shadowdogTag, pluginThrew>>

layerVars == <<commandTasks, byLevel, treePhase, layer, begun, finished, thrown>>

reloadVars == <<fileVersion, invalidVersions, currentConfig, currentWatchers, watching,
                restarts, debouncing, pipelines>>

\* what the handlers of each component leave alone
outsideDaemon == <<runnerVars, generatorVars, lockVars, listenerVars, reloadVars, layerVars,
    pluginVars,
    cacheKeyVars,
    pidLockVars,
    restoreVars,
    gitVars>>

outsideRunner == <<daemonVars, generatorVars, lockVars, listenerVars, reloadVars, layerVars,
    pluginVars,
    cacheKeyVars,
    pidLockVars,
    restoreVars,
    gitVars>>

outsideGenerator == <<daemonVars, runnerVars, lockVars, listenerVars, reloadVars, layerVars,
    pluginVars,
    cacheKeyVars,
    pidLockVars,
    restoreVars,
    gitVars>>

outsideLock == <<daemonVars, runnerVars, generatorVars, listenerVars, reloadVars, layerVars,
    pluginVars,
    cacheKeyVars,
    pidLockVars,
    restoreVars,
    gitVars>>

outsideListener == <<daemonVars, runnerVars, generatorVars, lockVars, reloadVars, layerVars,
    pluginVars,
    cacheKeyVars,
    pidLockVars,
    restoreVars,
    gitVars>>

outsideReload == <<daemonVars, runnerVars, generatorVars, lockVars, listenerVars,
                   layerVars,
    pluginVars,
    cacheKeyVars,
    pidLockVars,
    restoreVars,
    gitVars>>

outsideLayers == <<daemonVars, runnerVars, generatorVars, lockVars, listenerVars,
                   reloadVars,
    pluginVars,
    cacheKeyVars,
    pidLockVars,
    restoreVars,
    gitVars>>

outsidePlugins == <<daemonVars, runnerVars, generatorVars, lockVars, listenerVars,
                   reloadVars,
    layerVars,
    cacheKeyVars,
    pidLockVars,
    restoreVars,
    gitVars>>

outsideCacheKeys == <<daemonVars, runnerVars, generatorVars, lockVars, listenerVars,
                   reloadVars,
    layerVars,
    pluginVars,
    pidLockVars,
    restoreVars,
    gitVars>>

outsidePidLock == <<daemonVars, runnerVars, generatorVars, lockVars, listenerVars,
                   reloadVars,
    layerVars,
    pluginVars,
    cacheKeyVars,
    restoreVars,
    gitVars>>

outsideRestore == <<daemonVars, runnerVars, generatorVars, lockVars, listenerVars,
                   reloadVars,
    layerVars,
    pluginVars,
    cacheKeyVars,
    pidLockVars,
    gitVars>>

outsideGit == <<daemonVars, runnerVars, generatorVars, lockVars, listenerVars,
                   reloadVars,
    layerVars,
    pluginVars,
    cacheKeyVars,
    pidLockVars,
    restoreVars>>

vars == <<daemonVars, runnerVars, generatorVars, lockVars, listenerVars, reloadVars,
          layerVars,
    pluginVars,
    cacheKeyVars,
    pidLockVars,
    restoreVars,
    gitVars>>

\* ------------------------------------------------------------------------
\* Helpers
\* ------------------------------------------------------------------------
Range(s) == {s[i] : i \in DOMAIN s}

\* findCommandForArtifact: the first watcher and command that own an artifact
findCommandForArtifact(artifactOutput) ==
  LET hits == {wc \in {<<w, i>> : w \in Watchers, i \in 1..1} :
                 WatcherCommands[wc[1]][wc[2]] = artifactOutput}
  IN IF hits = {} THEN <<0, 0>>
     ELSE CHOOSE wc \in hits :
            \A o \in hits : wc[1] < o[1] \/ (wc[1] = o[1] /\ wc[2] <= o[2])

\* ------------------------------------------------------------------------
\* Event bus: what the shadowdog-mcp subscriber does with an emitted event
\* ------------------------------------------------------------------------
\* handleFileChange: track a change while paused, each path once
handleFileChange(paused, pending, filePath) ==
  IF paused
  THEN IF filePath \in Range(pending) THEN pending ELSE Append(pending, filePath)
  ELSE pending

\* the plugin's listeners: only a 'changed' event reaches handleFileChange
McpOnEvent(paused, pending, ev) ==
  IF ev.type = "changed" THEN handleFileChange(paused, pending, ev.path) ELSE pending

\* eventEmitter.emit of each event of a list, in order
RECURSIVE Emit(_, _, _)
Emit(paused, pending, evs) ==
  IF evs = <<>> THEN pending
  ELSE Emit(paused, McpOnEvent(paused, pending, Head(evs)), Tail(evs))

\* ------------------------------------------------------------------------
\* Daemon
\* ------------------------------------------------------------------------
\* the daemon's process has not exited: its handlers still run
ProcessAlive == cliPhase # "exited"

\* the pids whose shell command is alive
Alive(rs) == {p \in DOMAIN rs : rs[p].phase = "running"}

\* A pipeline run; its pid is its index in runs.  phase:
\*   "mw"      inside an asynchronous middleware, before next() reached runTask
\*   "running" the shell command is spawned and alive
\*   "killed"  SIGKILL was sent to the process group; exit not yet observed
\*   "post"    the command exited 0; a middleware works after next()
\*   "done"    execute() settled
\* over: the pids that were alive when the trigger of this run was handled
NewRun(trigger, c, phase, evs, over) ==
  [trigger |-> trigger, cmd |-> c, phase |-> phase, spawned |-> phase = "running",
   wrote |-> FALSE, evs |-> evs, over |-> over]

\* process.kill(-pid, 'SIGKILL') for each task of the array; a pid that is gone
\* makes process.kill throw, which is caught and logged
killPendingTasks(rs, tasks) ==
  [p \in DOMAIN rs |->
     IF p \in Range(tasks) /\ rs[p].phase = "running"
     THEN [rs[p] EXCEPT !.phase = "killed"]
     ELSE rs[p]]

\* the middleware plugins of the configuration suspend before calling next()
AsyncMiddleware == plugins # {}

\* chokidar reports a file event; the debounced wrapper (re)arms its timer and
\* keeps the latest arguments
FsEvent(w, k, p) ==
  /\ ProcessAlive
  /\ nInputs < MaxInputs
  /\ p \in WatcherFiles[w]
  /\ timers' = [timers EXCEPT ![w][k] = p]
  /\ nInputs' = nInputs + 1
  /\ request' = "fs"
  /\ UNCHANGED <<plugins, isPaused, pendingTasks, watcherTasks, sameArray, runs,
                 lastEnd, mcpPaused, pendingChangedFiles, droppedChanges>>
  /\ UNCHANGED <<isShuttingDown, signals>>
  /\ UNCHANGED outsideDaemon

\* the commands of one handler invocation, started in order by the map():
\* emit begin, then run the chain up to its first suspension point
RECURSIVE StartCommands(_, _, _, _)
StartCommands(rs, cmds, async, over) ==
  IF cmds = <<>> THEN rs
  ELSE StartCommands(
         Append(rs, NewRun("fs", Head(cmds), IF async THEN "mw" ELSE "running",
                           <<"begin">>, over)),
         Tail(cmds), async, over)

\* the pids lo..hi in order
RECURSIVE Pids(_, _)
Pids(lo, hi) == IF lo > hi THEN <<>> ELSE <<lo>> \o Pids(lo + 1, hi)

\* onFileChange, called by the debounce timer with the last path
onFileChange(w, k) ==
  /\ ProcessAlive
  /\ timers[w][k] # NoPath
  /\ timers' = [timers EXCEPT ![w][k] = NoPath]
  /\ IF isPaused
     THEN /\ droppedChanges' = droppedChanges \cup {timers[w][k]}
          /\ UNCHANGED <<pendingTasks, watcherTasks, sameArray, runs,
                         pendingChangedFiles>>
     ELSE LET killed == killPendingTasks(runs, pendingTasks)
              started == StartCommands(killed, WatcherCommands[w], AsyncMiddleware,
                                       Alive(runs))
              spawned == IF AsyncMiddleware THEN <<>>
                         ELSE Pids(Len(runs) + 1, Len(started))
          IN /\ runs' = started
             /\ pendingTasks' = <<>>
             /\ sameArray' = FALSE
             /\ watcherTasks' = watcherTasks \o spawned
             /\ pendingChangedFiles' =
                  Emit(mcpPaused, pendingChangedFiles,
                       [i \in 1..Len(WatcherCommands[w]) |-> [type |-> "begin"]])
             /\ UNCHANGED droppedChanges
  /\ UNCHANGED <<plugins, isPaused, lastEnd, mcpPaused, nInputs, request>>
  /\ UNCHANGED <<isShuttingDown, signals>>
  /\ UNCHANGED outsideDaemon

\* a pipeline that settles without emitting anything
SettleQuietly(rs, p, ok) == [rs EXCEPT ![p].phase = "done"]

\* the pipeline of run p settles: the watcher callback emits end or error, the
\* computeArtifact handler only logs
Settle(rs, p, ok) ==
  [rs EXCEPT ![p].phase = "done",
             ![p].evs = IF rs[p].trigger = "fs"
                        THEN Append(@, IF ok THEN "end" ELSE "error")
                        ELSE @]

\* the events a settling pipeline emits
SettleEvents(rs, p, ok) ==
  IF rs[p].trigger = "fs" THEN <<[type |-> IF ok THEN "end" ELSE "error"]>> ELSE <<>>

\* the cache middleware finishes its lookup: on a full hit it aborts and the
\* chain settles without spawning; otherwise next() reaches runTask, which
\* spawns the command and calls onSpawn
MiddlewareLookup(p, hit) ==
  /\ ProcessAlive
  /\ p \in DOMAIN runs
  /\ runs[p].phase = "mw"
  /\ IF hit
     THEN /\ runs' = Settle(runs, p, TRUE)
          /\ lastEnd' = IF runs[p].trigger = "fs" THEN p ELSE lastEnd
          /\ pendingChangedFiles' =
               Emit(mcpPaused, pendingChangedFiles, SettleEvents(runs, p, TRUE))
          /\ UNCHANGED <<pendingTasks, watcherTasks>>
     ELSE /\ runs' = [runs EXCEPT ![p].phase = "running", ![p].spawned = TRUE]
          /\ IF runs[p].trigger = "fs"
             THEN /\ watcherTasks' = Append(watcherTasks, p)
                  /\ pendingTasks' = IF sameArray THEN Append(pendingTasks, p)
                                     ELSE pendingTasks
             ELSE UNCHANGED <<pendingTasks, watcherTasks>>
          /\ UNCHANGED <<lastEnd, pendingChangedFiles>>
  /\ UNCHANGED <<plugins, isPaused, sameArray, timers, mcpPaused, nInputs, request,
                 droppedChanges>>
  /\ UNCHANGED <<isShuttingDown, signals>>
  /\ UNCHANGED outsideDaemon

\* runTask's 'exit' handler: resolve on exit code 0, reject otherwise (a killed
\* process exits with a null code).  The handler does not call onExit.
ProcessExit(p, code) ==
  /\ ProcessAlive
  /\ p \in DOMAIN runs
  /\ \/ runs[p].phase = "running"
     \/ runs[p].phase = "killed" /\ code # 0
  /\ IF code = 0 /\ AsyncMiddleware
     THEN /\ runs' = [runs EXCEPT ![p].phase = "post", ![p].wrote = TRUE]
          /\ UNCHANGED <<lastEnd, pendingChangedFiles>>
     ELSE /\ runs' = Settle([runs EXCEPT ![p].wrote = (code = 0)], p, code = 0)
          /\ lastEnd' = IF runs[p].trigger = "fs" /\ code = 0 THEN p ELSE lastEnd
          /\ pendingChangedFiles' =
               Emit(mcpPaused, pendingChangedFiles, SettleEvents(runs, p, code = 0))
  /\ UNCHANGED <<plugins, isPaused, pendingTasks, watcherTasks, sameArray, timers,
                 mcpPaused, nInputs, request, droppedChanges>>
  /\ UNCHANGED <<isShuttingDown, signals>>
  /\ UNCHANGED outsideDaemon

\* the cache middleware's work after next() returned (the write path) is over
MiddlewareAfterNext(p) ==
  /\ ProcessAlive
  /\ p \in DOMAIN runs
  /\ runs[p].phase = "post"
  /\ runs' = Settle(runs, p, TRUE)
  /\ lastEnd' = IF runs[p].trigger = "fs" THEN p ELSE lastEnd
  /\ pendingChangedFiles' =
       Emit(mcpPaused, pendingChangedFiles, SettleEvents(runs, p, TRUE))
  /\ UNCHANGED <<plugins, isPaused, pendingTasks, watcherTasks, sameArray, timers,
                 mcpPaused, nInputs, request, droppedChanges>>
  /\ UNCHANGED <<isShuttingDown, signals>>
  /\ UNCHANGED outsideDaemon

\* MCP tool pause-shadowdog: the plugin sets its flag and emits 'pause', whose
\* daemon listener sets isPaused
Pause ==
  /\ ProcessAlive
  /\ nInputs < MaxInputs
  /\ mcpPaused' = TRUE
  /\ isPaused' = TRUE
  /\ pendingChangedFiles' = Emit(TRUE, pendingChangedFiles, <<[type |-> "pause"]>>)
  /\ nInputs' = nInputs + 1
  /\ request' = "pause"
  /\ UNCHANGED <<plugins, pendingTasks, watcherTasks, sameArray, timers, runs, lastEnd,
                 droppedChanges>>
  /\ UNCHANGED <<isShuttingDown, signals>>
  /\ UNCHANGED outsideDaemon

\* replayPendingChanges: utimesSync on each pending path, in order; every touch
\* is a 'change' event of the watchers that watch the path
RECURSIVE replayPendingChanges(_, _)
replayPendingChanges(tm, pending) ==
  IF pending = <<>> THEN tm
  ELSE replayPendingChanges(
         [w \in Watchers |->
            IF Head(pending) \in WatcherFiles[w]
            THEN [tm[w] EXCEPT !["change"] = Head(pending)]
            ELSE tm[w]],
         Tail(pending))

\* MCP tool resume-shadowdog: clear the flags, emit 'resume', replay the pending
\* changes and clear the list
Resume ==
  /\ ProcessAlive
  /\ nInputs < MaxInputs
  /\ mcpPaused' = FALSE
  /\ isPaused' = FALSE
  /\ LET pending == Emit(FALSE, pendingChangedFiles, <<[type |-> "resume"]>>)
     IN timers' = replayPendingChanges(timers, pending)
  /\ pendingChangedFiles' = <<>>
  /\ droppedChanges' = {}
  /\ nInputs' = nInputs + 1
  /\ request' = "resume"
  /\ UNCHANGED <<plugins, pendingTasks, watcherTasks, sameArray, runs, lastEnd>>
  /\ UNCHANGED <<isShuttingDown, signals>>
  /\ UNCHANGED outsideDaemon

\* the daemon's 'computeArtifact' listener past its pause check: kill the
\* pending tasks, find the command, run the pipeline with an untracked spawn
ComputeNow(rs, tasks, artifactOutput) ==
  Append(killPendingTasks(rs, tasks),
         NewRun("rpc", artifactOutput, IF AsyncMiddleware THEN "mw" ELSE "running",
                <<>>, Alive(rs)))

\* the listener without its pause check
ComputeIgnoringPause(paused, rs, tasks, artifactOutput) ==
  [runs |-> ComputeNow(rs, tasks, artifactOutput), tasks |-> <<>>, rebound |-> TRUE]

\* the daemon's 'computeArtifact' listener: the new runs, the array its variable
\* pendingTasks denotes afterwards, and whether the variable was rebound
computeArtifactListener(paused, rs, tasks, artifactOutput) ==
  IF paused
  THEN [runs |-> rs, tasks |-> tasks, rebound |-> FALSE]
  ELSE [runs |-> ComputeNow(rs, tasks, artifactOutput), tasks |-> <<>>,
        rebound |-> TRUE]

\* MCP tool compute-artifact: an unknown artifact is answered with an error,
\* a known one is handed to the daemon by emitting 'computeArtifact'
ComputeArtifact(artifactOutput) ==
  /\ ProcessAlive
  /\ nInputs < MaxInputs
  /\ nInputs' = nInputs + 1
  /\ request' = "computeArtifact"
  /\ IF findCommandForArtifact(artifactOutput) = <<0, 0>>
     THEN UNCHANGED <<pendingTasks, sameArray, runs>>
     ELSE LET after == computeArtifactListener(isPaused, runs, pendingTasks,
                                               artifactOutput)
          IN /\ runs' = after.runs
             /\ pendingTasks' = after.tasks
             /\ sameArray' = (sameArray /\ ~after.rebound)
  /\ pendingChangedFiles' =
       Emit(mcpPaused, pendingChangedFiles, <<[type |-> "computeArtifact"]>>)
  /\ UNCHANGED <<plugins, isPaused, watcherTasks, timers, lastEnd, mcpPaused,
                 droppedChanges>>
  /\ UNCHANGED <<isShuttingDown, signals>>
  /\ UNCHANGED outsideDaemon

\* getAllArtifacts of the MCP server: the outputs of every command of the
\* loaded configuration
getAllArtifacts == Artifacts

\* MCP tool compute-all-artifacts: with no artifact configured it answers that
\* there is nothing to compute; otherwise it emits 'computeAllArtifacts' and
\* answers that the request was sent.  The daemon registers listeners for
\* 'pause', 'resume' and 'computeArtifact' only, and the plugin's own listeners
\* ignore the event: the emit reaches no subscriber
ComputeAllArtifacts ==
  /\ ProcessAlive
  /\ nInputs < MaxInputs
  /\ nInputs' = nInputs + 1
  /\ request' = "computeAllArtifacts"
  /\ pendingChangedFiles' =
       IF getAllArtifacts = {} THEN pendingChangedFiles
       ELSE Emit(mcpPaused, pendingChangedFiles, <<[type |-> "computeAllArtifacts"]>>)
  /\ UNCHANGED <<plugins, isPaused, pendingTasks, watcherTasks, sameArray, timers,
                 runs, lastEnd, mcpPaused, droppedChanges>>
  /\ UNCHANGED <<isShuttingDown, signals>>
  /\ UNCHANGED outsideDaemon

\* ------------------------------------------------------------------------
\* Task Runner: one execute() over the middleware chain
\* ------------------------------------------------------------------------
\* the kinds of middleware: the local cache plugin, any other middleware plugin
\* (it awaits next() at most once, and may call abort() at any point), and the
\* terminal executor registered last, which runs the shell command
LocalCache == "shadowdog-local-cache"

Plugin == "plugin"

Terminal == "runTask"

\* the artifacts the command declares (commandConfig.artifacts), per command
CommandArtifacts == {{}, {"a"}, {"a", "b"}}

\* values of an environment variable
EnvValues == {"unset", "true", "false"}

\* the chains TaskRunner.use can build: the middleware plugins of the
\* configuration in order, then the terminal executor
Chains ==
  {c \o <<Terminal>> :
     c \in {d \in UNION {[1..n -> {Plugin, LocalCache}] : n \in 0..MaxMiddlewares} :
              Cardinality({i \in DOMAIN d : d[i] = LocalCache}) <= 1}}

\* next() as seen from a caller: the new index and the position (1-based) of
\* the middleware it invokes, 0 if it returns result without invoking one
NextIgnoringAbort(ix, aborted, n) ==
  IF ix + 1 >= n THEN [index |-> ix + 1, enter |-> 0]
  ELSE [index |-> ix + 1, enter |-> ix + 2]

next(ix, aborted, n) ==
  IF aborted THEN [index |-> ix, enter |-> 0]
  ELSE IF ix + 1 >= n THEN [index |-> ix + 1, enter |-> 0]
  ELSE [index |-> ix + 1, enter |-> ix + 2]

\* the frames after middleware pos has been invoked
Enter(fr, pos) ==
  IF pos = 0 THEN fr
  ELSE [fr EXCEPT ![pos].pc = IF middlewares[pos] = Terminal THEN "running" ELSE "body"]

\* frame i calls next() and continues at pcAfter
CallNext(i, pcAfter) ==
  LET n == next(index, isAborted, Len(middlewares))
  IN /\ index' = n.index
     /\ frames' = [Enter(frames, n.enter) EXCEPT ![i] = [pc |-> pcAfter, child |-> n.enter]]
     /\ entered' = IF n.enter = 0 THEN entered ELSE Append(entered, n.enter)
     /\ commandRuns' = IF n.enter # 0 /\ middlewares[n.enter] = Terminal
                       THEN commandRuns + 1 ELSE commandRuns

\* the promise next() returned to frame i is settled
ChildSettled(i) ==
  IF frames[i].child = 0 THEN TRUE
  ELSE frames[frames[i].child].pc \in {"returned", "threw"}

\* a rejection of next() that goes unnoticed
NeverThrew(i) == FALSE

\* the promise next() returned to frame i is rejected
ChildThrew(i) ==
  IF frames[i].child = 0 THEN FALSE ELSE frames[frames[i].child].pc = "threw"

\* execute(): reset index and isAborted, call next()
execute ==
  /\ execution = "idle"
  /\ execution' = "running"
  /\ isAborted' = FALSE
  /\ LET n == next(-1, FALSE, Len(middlewares))
     IN /\ index' = n.index
        /\ frames' = Enter(frames, n.enter)
        /\ entered' = IF n.enter = 0 THEN entered ELSE Append(entered, n.enter)
        /\ commandRuns' = IF n.enter # 0 /\ middlewares[n.enter] = Terminal
                          THEN commandRuns + 1 ELSE commandRuns
  /\ UNCHANGED <<middlewares, environment, options, cacheObjects, outputs, unpacked,
                 packed, generation, outsideRunner>>

\* execute() settles with the promise of its next() call
executeSettles ==
  /\ execution = "running"
  /\ frames[1].pc \in {"returned", "threw"}
  /\ execution' = IF frames[1].pc = "returned" THEN "resolved" ELSE "rejected"
  /\ UNCHANGED <<middlewares, index, isAborted, frames, entered, environment, options,
                 cacheObjects, outputs, unpacked, packed, commandRuns, generation, outsideRunner>>

\* a middleware plugin calls abort()
PluginAbort(i) ==
  /\ middlewares[i] = Plugin
  /\ frames[i].pc \in {"body", "awaiting", "after"}
  /\ ~isAborted
  /\ isAborted' = TRUE
  /\ UNCHANGED <<middlewares, index, frames, entered, execution, environment, options,
                 cacheObjects, outputs, unpacked, packed, commandRuns, generation, outsideRunner>>

\* a middleware plugin calls next() and awaits it
PluginNext(i) ==
  /\ middlewares[i] = Plugin
  /\ frames[i].pc = "body"
  /\ CallNext(i, "awaiting")
  /\ UNCHANGED <<middlewares, isAborted, execution, environment, options, cacheObjects,
                 outputs, unpacked, packed, generation, outsideRunner>>

\* the await of a middleware plugin resumes; a rejection propagates
PluginResume(i) ==
  /\ middlewares[i] = Plugin
  /\ frames[i].pc = "awaiting"
  /\ ChildSettled(i)
  /\ frames' = [frames EXCEPT ![i].pc = IF ChildThrew(i) THEN "threw" ELSE "after"]
  /\ UNCHANGED <<middlewares, index, isAborted, entered, execution, environment,
                 options, cacheObjects, outputs, unpacked, packed, commandRuns,
                 generation, outsideRunner>>

\* a middleware plugin returns, before or after its next()
PluginReturn(i) ==
  /\ middlewares[i] = Plugin
  /\ frames[i].pc \in {"body", "after"}
  /\ frames' = [frames EXCEPT ![i].pc = "returned"]
  /\ UNCHANGED <<middlewares, index, isAborted, entered, execution, environment,
                 options, cacheObjects, outputs, unpacked, packed, commandRuns,
                 generation, outsideRunner>>

\* runTask: the spawned command exits; 0 resolves, anything else rejects.  A
\* command that succeeds has written some of its declared artifacts
TerminalExit(i, code, produced) ==
  /\ middlewares[i] = Terminal
  /\ frames[i].pc = "running"
  /\ code # 0 => produced = {}
  /\ frames' = [frames EXCEPT ![i].pc = IF code = 0 THEN "returned" ELSE "threw"]
  /\ outputs' = [a \in DOMAIN outputs |-> IF a \in produced THEN "built" ELSE outputs[a]]
  /\ UNCHANGED <<middlewares, index, isAborted, entered, execution, environment,
                 options, cacheObjects, unpacked, packed, commandRuns, generation, outsideRunner>>

\* ------------------------------------------------------------------------
\* Local cache middleware
\* ------------------------------------------------------------------------
\* SHADOWDOG_DISABLE_LOCAL_CACHE is set
CacheDisabled(env) == env.disable

\* readCache / writeCache: the environment variable, when set, overrides the option
readCache(env, opts) == IF env.read # "unset" THEN env.read = "true" ELSE opts.read

writeCache(env, opts) == IF env.write # "unset" THEN env.write = "true" ELSE opts.write

\* restoreCache, per artifact: the cache object is there and decompresses
CacheHit(objs, a) == objs[a] = "valid"

\* restoreCache without its SHA verification: no restore is ever skipped
NeverSkipsRestore(objs, outs, a) == FALSE

\* restoreCache, per artifact: the existing file has the SHA of the cached one
SkipsRestore(objs, outs, a) == CacheHit(objs, a) /\ outs[a] = "same"

\* restoreCache: the artifacts returned to be generated (miss or failed restore)
artifactToGenerate(objs) == {a \in DOMAIN objs : ~CacheHit(objs, a)}

\* a restoreCache that does not ask for a declared artifact
restoresVacuously(objs) == artifactToGenerate(objs) = {}

\* restoreCache's result: at least one artifact and none left to generate
restoreCache(objs) == DOMAIN objs # {} /\ artifactToGenerate(objs) = {}

\* the middleware never aborting, whatever the lookup found
NeverRestored(read, restored) == FALSE

\* the middleware's decision to abort
hasBeenRestored(read, restored) == read /\ restored

\* the middleware up to its first call of next() or abort()
CacheRead(i) ==
  /\ middlewares[i] = LocalCache
  /\ frames[i].pc = "body"
  /\ IF CacheDisabled(environment) \/ ~readCache(environment, options)
     THEN /\ CallNext(i, "awaiting")
          /\ UNCHANGED <<isAborted, outputs, unpacked>>
     ELSE /\ unpacked' = {a \in DOMAIN outputs :
                            CacheHit(cacheObjects, a) /\ ~SkipsRestore(cacheObjects, outputs, a)}
          /\ outputs' = [a \in DOMAIN outputs |->
                           IF CacheHit(cacheObjects, a) THEN "same" ELSE outputs[a]]
          /\ IF hasBeenRestored(TRUE, restoreCache(cacheObjects))
             THEN /\ isAborted' = TRUE
                  /\ frames' = [frames EXCEPT ![i].pc = "returned"]
                  /\ UNCHANGED <<index, entered, commandRuns>>
             ELSE /\ CallNext(i, "awaiting")
                  /\ UNCHANGED isAborted
  /\ UNCHANGED <<middlewares, execution, environment, options, cacheObjects, packed,
                 generation, outsideRunner>>

\* the write path is reached: next() resolved and writing is in effect
WritesCache(i) ==
  /\ ~ChildThrew(i)
  /\ ~CacheDisabled(environment)
  /\ writeCache(environment, options)

\* a write path without the try/catch around compressArtifact
rethrowsPackFailure(childThrew, failed) ==
  IF childThrew \/ failed # {} THEN "threw" ELSE "returned"

\* how the middleware settles: a rejection of next() propagates; a rejection
\* of compressArtifact is caught and logged
settleAfterWrite(childThrew, failed) ==
  IF childThrew THEN "threw" ELSE "returned"

\* the middleware after its next(): a rejection propagates; otherwise, unless
\* disabled, the write path stores every artifact present on disk, except those
\* (failed) whose compressArtifact rejects
CacheAfterNext(i, failed) ==
  /\ middlewares[i] = LocalCache
  /\ frames[i].pc = "awaiting"
  /\ ChildSettled(i)
  /\ failed \subseteq {a \in DOMAIN outputs : outputs[a] # "absent"}
  /\ ~WritesCache(i) => failed = {}
  /\ frames' = [frames EXCEPT ![i].pc = settleAfterWrite(ChildThrew(i), failed)]
  /\ packed' = IF WritesCache(i)
               THEN {a \in DOMAIN outputs : outputs[a] # "absent"} \ failed
               ELSE packed
  /\ UNCHANGED <<middlewares, index, isAborted, entered, execution, environment,
                 options, cacheObjects, outputs, unpacked, commandRuns, generation, outsideRunner>>

\* the cache after an invocation stored the artifacts it packed
StoredObjects(objs, pk) ==
  [a \in DOMAIN objs |-> IF a \in pk THEN "valid" ELSE objs[a]]

\* a generate is over and is followed by a second one with the same inputs:
\* the same command and chain, the cache and the files as the first one left
\* them
executeAgain ==
  /\ generation = 1
  /\ execution \in {"resolved", "rejected"}
  /\ generation' = 2
  /\ execution' = "idle"
  /\ index' = -1
  /\ isAborted' = FALSE
  /\ frames' = [i \in DOMAIN middlewares |-> [pc |-> "idle", child |-> 0]]
  /\ entered' = <<>>
  /\ cacheObjects' = StoredObjects(cacheObjects, packed)
  /\ outputs' = [a \in DOMAIN outputs |-> IF a \in packed THEN "same" ELSE outputs[a]]
  /\ unpacked' = {}
  /\ packed' = {}
  /\ UNCHANGED <<middlewares, environment, options, commandRuns, outsideRunner>>

\* the runner's variables while no execute() is modelled
RunnerIdle ==
  /\ middlewares = <<Terminal>>
  /\ index = -1
  /\ isAborted = FALSE
  /\ frames = <<[pc |-> "idle", child |-> 0]>>
  /\ entered = <<>>
  /\ execution = "idle"
  /\ environment = [disable |-> FALSE, read |-> "unset", write |-> "unset"]
  /\ options = [read |-> TRUE, write |-> TRUE]
  /\ cacheObjects = << >>
  /\ outputs = << >>
  /\ unpacked = {}
  /\ packed = {}
  /\ commandRuns = 0
  /\ generation = 1

\* ------------------------------------------------------------------------
\* Generator: the CLI's generate() over a Task tree
\* ------------------------------------------------------------------------
\* a Task tree as a table of nodes, the root first; tasks: the children
CommandTask == [type |-> "command", tasks |-> <<>>]

EmptyTask == [type |-> "empty", tasks |-> <<>>]

ParallelTask(ts) == [type |-> "parallel", tasks |-> ts]

SerialTask(ts) == [type |-> "serial", tasks |-> ts]

\* the executables that call generate: the CLI and the terminal UI's main
EntryPoints == {"cli", "ui-main"}

\* the trees walked: generate's parallel of every command; a parallel with a
\* serial sub-task; a parallel after a command plugin replaced a command by
\* Empty; serial layers of parallel commands
TaskTrees ==
  { <<ParallelTask(<<2, 3>>), CommandTask, CommandTask>>,
    <<ParallelTask(<<2, 3>>), SerialTask(<<4, 5>>), CommandTask, CommandTask,
      CommandTask>>,
    <<ParallelTask(<<2, 3, 4>>), CommandTask, EmptyTask, CommandTask>>,
    <<SerialTask(<<2, 3>>), ParallelTask(<<4, 5>>), ParallelTask(<<6>>),
      CommandTask, CommandTask, CommandTask>> }

\* processTask of each task of a list up to its first suspension point, in
\* call order: a command emits begin and starts its runner, a parallel starts
\* every sub-task, a serial starts its first one, an empty one is done
RECURSIVE processTask(_, _, _)
processTask(tree, st, todo) ==
  IF todo = <<>> THEN st
  ELSE LET n == Head(todo)
           type == tree[n].type
       IN IF type = "command"
          THEN processTask(tree,
                           [status |-> [st.status EXCEPT ![n] = "running"],
                            events |-> [st.events EXCEPT ![n] = Append(@, "begin")]],
                           Tail(todo))
          ELSE IF type = "empty"
          THEN processTask(tree,
                           [st EXCEPT !.status = [st.status EXCEPT ![n] = "resolved"]],
                           Tail(todo))
          ELSE IF type = "parallel"
          THEN processTask(tree,
                           [st EXCEPT !.status = [st.status EXCEPT ![n] = "running"]],
                           tree[n].tasks \o Tail(todo))
          ELSE processTask(tree,
                           [st EXCEPT !.status = [st.status EXCEPT ![n] = "running"]],
                           (IF tree[n].tasks = <<>> THEN <<>> ELSE <<Head(tree[n].tasks)>>)
                             \o Tail(todo))

\* the events a command emits when execute() settles, both at once
EndAndError(ok) == <<"end", "error">>

\* the event a command emits when execute() settles
SettleEvent(ok) == IF ok THEN <<"end">> ELSE <<"error">>

\* options.continueOnError: the CLI passes its watch flag, the UI executable
\* passes true
continueOnError == IF entryPoint = "cli" THEN watch ELSE TRUE

\* the process is alive and generate() was called
Generating == cliPhase \in {"generating", "exiting"}

\* the CLI calls generate(config, eventEmitter, { continueOnError: watch })
generate ==
  /\ cliPhase = "boot"
  /\ cliPhase' = "generating"
  /\ LET st == processTask(taskTree, [status |-> taskStatus, events |-> taskEvents], <<1>>)
     IN /\ taskStatus' = st.status
        /\ taskEvents' = st.events
  /\ UNCHANGED <<taskTree, artifacts, watch, exitCode, entryPoint, exitCalls>>
  /\ UNCHANGED outsideGenerator

\* what a command leaves at its declared artifact path: nothing (the path is
\* as it was), a file with content, or a 0-byte file
Written == {"nothing", "fresh", "empty"}

\* a command's taskRunner.execute() settles: emit end, or emit error and
\* rethrow unless continueOnError. The command that exited 0 has written its
\* artifact or not; processTask does not look at the artifact path.
CommandSettles(n, ok, written) ==
  /\ Generating
  /\ taskTree[n].type = "command"
  /\ taskStatus[n] = "running"
  /\ ~ok => written = "nothing"
  /\ artifacts' = [artifacts EXCEPT ![n] = IF written = "nothing" THEN @ ELSE written]
  /\ taskEvents' = [taskEvents EXCEPT ![n] = @ \o SettleEvent(ok)]
  /\ taskStatus' = [taskStatus EXCEPT ![n] = IF ok \/ continueOnError THEN "resolved"
                                             ELSE "rejected"]
  /\ UNCHANGED <<taskTree, watch, cliPhase, exitCode, entryPoint, exitCalls>>
  /\ UNCHANGED outsideGenerator

\* Promise.all of a parallel task: rejected with its first rejected sub-task,
\* resolved when every sub-task is
ParallelContinues(n) ==
  /\ Generating
  /\ taskTree[n].type = "parallel"
  /\ taskStatus[n] = "running"
  /\ LET subs == Range(taskTree[n].tasks)
     IN IF \E s \in subs : taskStatus[s] = "rejected"
        THEN taskStatus' = [taskStatus EXCEPT ![n] = "rejected"]
        ELSE /\ \A s \in subs : taskStatus[s] = "resolved"
             /\ taskStatus' = [taskStatus EXCEPT ![n] = "resolved"]
  /\ UNCHANGED <<taskTree, artifacts, taskEvents, watch, cliPhase, exitCode, entryPoint, exitCalls>>
  /\ UNCHANGED outsideGenerator

\* the loop of a serial task after the await of a sub-task: a rejection
\* leaves the loop, otherwise the next sub-task is processed
SerialContinues(n) ==
  /\ Generating
  /\ taskTree[n].type = "serial"
  /\ taskStatus[n] = "running"
  /\ LET ts == taskTree[n].tasks
         left == {i \in DOMAIN ts : taskStatus[ts[i]] # "resolved"}
     IN IF left = {}
        THEN /\ taskStatus' = [taskStatus EXCEPT ![n] = "resolved"]
             /\ UNCHANGED taskEvents
        ELSE LET s == ts[CHOOSE i \in left : \A j \in left : i <= j]
             IN IF taskStatus[s] = "rejected"
                THEN /\ taskStatus' = [taskStatus EXCEPT ![n] = "rejected"]
                     /\ UNCHANGED taskEvents
                ELSE /\ taskStatus[s] = "pending"
                     /\ LET st == processTask(taskTree,
                                              [status |-> taskStatus, events |-> taskEvents],
                                              <<s>>)
                        IN /\ taskStatus' = st.status
                           /\ taskEvents' = st.events
  /\ UNCHANGED <<taskTree, artifacts, watch, cliPhase, exitCode, entryPoint, exitCalls>>
  /\ UNCHANGED outsideGenerator

\* generate() resolved: the CLI emits allTasksComplete, then runs the daemon in
\* watch mode or calls exit(eventEmitter, 0); the UI executable runs the daemon
\* in watch mode and otherwise returns from main
generateResolved ==
  /\ cliPhase = "generating"
  /\ taskStatus[1] = "resolved"
  /\ cliPhase' = IF watch THEN "daemon"
                 ELSE IF entryPoint = "cli" THEN "exiting" ELSE "exited"
  /\ exitCode' = IF watch THEN exitCode ELSE 0
  /\ exitCalls' = IF ~watch /\ entryPoint = "cli" THEN exitCalls + 1 ELSE exitCalls
  /\ UNCHANGED <<taskTree, artifacts, taskStatus, taskEvents, watch, entryPoint>>
  /\ UNCHANGED outsideGenerator

\* generate() rejected: the CLI logs and calls exit(eventEmitter, 1); the UI
\* executable logs and goes on in watch mode, and otherwise main rejects and
\* the process exits with 1
generateRejected ==
  /\ cliPhase = "generating"
  /\ taskStatus[1] = "rejected"
  /\ cliPhase' = IF entryPoint = "cli" THEN "exiting"
                 ELSE IF watch THEN "daemon" ELSE "exited"
  /\ exitCode' = IF entryPoint = "ui-main" /\ watch THEN exitCode ELSE 1
  /\ exitCalls' = IF entryPoint = "cli" THEN exitCalls + 1 ELSE exitCalls
  /\ UNCHANGED <<taskTree, artifacts, taskStatus, taskEvents, watch, entryPoint>>
  /\ UNCHANGED outsideGenerator

\* exit(): the 'exit' listeners are done, removeAllListeners, process.exit
exit ==
  /\ cliPhase = "exiting"
  /\ cliPhase' = "exited"
  /\ UNCHANGED <<taskTree, artifacts, taskStatus, taskEvents, watch, exitCode, entryPoint, exitCalls>>
  /\ UNCHANGED outsideGenerator

\* the generator's variables while no generate() is modelled
GeneratorIdle ==
  /\ taskTree = <<EmptyTask>>
  /\ taskStatus = <<"pending">>
  /\ taskEvents = <<(<<>>)>>
  /\ artifacts = <<"absent">>
  /\ watch = TRUE
  /\ cliPhase = "daemon"
  /\ exitCode = 0
  /\ entryPoint = "cli"
  /\ exitCalls = 0

\* ------------------------------------------------------------------------
\* Lock File Writer: callers of writeLockFile / regenerateLockFile
\* ------------------------------------------------------------------------
Callers == 1..MaxCallers

\* the two writers of shadowdog-lock.json: the middleware's writeLockFile,
\* whose write awaits the filesystem, and the listener's regenerateLockFile,
\* whose write is synchronous
LockWriters == {"writeLockFile", "regenerateLockFile"}

\* a caller past its wait: the write promise is created and its body runs up
\* to its first await; the synchronous body writes the file and is settled
StartWrite(c) ==
  /\ writePromise' = c
  /\ IF lockWriter = "writeLockFile"
     THEN /\ callerPc' = [callerPc EXCEPT ![c] = "pathExists"]
          /\ UNCHANGED <<lockFile, settledWrites>>
     ELSE /\ callerPc' = [callerPc EXCEPT ![c] = "awaitOwn"]
          /\ lockFile' = lockFile \cup {c}
          /\ settledWrites' = settledWrites \cup {c}

\* a call of the writer: wait for the write promise if there is one
CallWriter(c) ==
  /\ callerPc[c] = "idle"
  /\ IF writePromise # 0
     THEN /\ callerPc' = [callerPc EXCEPT ![c] = "awaitPrevious"]
          /\ awaited' = [awaited EXCEPT ![c] = writePromise]
          /\ UNCHANGED <<writePromise, lockFile, settledWrites>>
     ELSE /\ StartWrite(c)
          /\ UNCHANGED awaited
  /\ UNCHANGED <<lockWriter, existing>>
  /\ UNCHANGED outsideLock

\* the awaited write promise is settled: the caller goes on to its own write
PreviousSettled(c) ==
  /\ callerPc[c] = "awaitPrevious"
  /\ awaited[c] \in settledWrites
  /\ StartWrite(c)
  /\ UNCHANGED <<lockWriter, awaited, existing>>
  /\ UNCHANGED outsideLock

\* writeLockFile: pathExists / readJSON read the existing lock file
ReadExisting(c) ==
  /\ callerPc[c] = "pathExists"
  /\ existing' = [existing EXCEPT ![c] = lockFile]
  /\ callerPc' = [callerPc EXCEPT ![c] = "writeJSON"]
  /\ UNCHANGED <<lockWriter, writePromise, awaited, settledWrites, lockFile>>
  /\ UNCHANGED outsideLock

\* writeLockFile: ensureDir / writeJSON write the merged artifacts; the write
\* promise is settled
WriteMerged(c) ==
  /\ callerPc[c] = "writeJSON"
  /\ lockFile' = existing[c] \cup {c}
  /\ settledWrites' = settledWrites \cup {c}
  /\ callerPc' = [callerPc EXCEPT ![c] = "awaitOwn"]
  /\ UNCHANGED <<lockWriter, writePromise, awaited, existing>>
  /\ UNCHANGED outsideLock

\* the caller's await of its own write promise resumes: the call returns
WriterReturns(c) ==
  /\ callerPc[c] = "awaitOwn"
  /\ c \in settledWrites
  /\ callerPc' = [callerPc EXCEPT ![c] = "done"]
  /\ UNCHANGED <<lockWriter, writePromise, awaited, settledWrites, lockFile, existing>>
  /\ UNCHANGED outsideLock

\* the callers whose write is in flight
WritesInFlight == {c \in Callers : callerPc[c] \in {"pathExists", "writeJSON"}}

\* the writer's variables while no write is modelled
LockWriterIdle ==
  /\ lockWriter = "regenerateLockFile"
  /\ writePromise = 0
  /\ callerPc = [c \in Callers |-> "idle"]
  /\ awaited = [c \in Callers |-> 0]
  /\ settledWrites = {}
  /\ lockFile = {}
  /\ existing = [c \in Callers |-> {}]

\* ------------------------------------------------------------------------
\* The lock file listener (shadowdog-lock) under the events the CLI and the
\* daemon emit
\* ------------------------------------------------------------------------

\* the states of shadowdog-lock.json on disk
LockContents == {"missing", "well-formed", "conflict-markers", "invalid-json"}

\* the versions of shadowdog.json that are loaded in one run
ConfigVersions == 1..MaxConfigs

\* detectAndResolveConflicts: true for merge conflict markers or invalid JSON,
\* false for a well-formed or an unreadable file
detectAndResolveConflicts(content) == content \in {"conflict-markers", "invalid-json"}

\* an 'end' listener that rebuilds in every mode
EndAlwaysRebuilds(mode, cfg, filePath) == TRUE

\* 'end' listener: if (!isInGenerateMode && config && lockFilePath)
EndRebuilds(mode, cfg, filePath) == ~mode /\ cfg # 0 /\ filePath # ""

\* regenerateLockFile: returns when config is null, else writes the lock file
\* from config. Its body after 'await writePromise' is synchronous, so the
\* promise it awaits is settled and the write happens before the next event.
regenerateLockFile(cfg) ==
  IF cfg = 0
  THEN UNCHANGED <<lockContent, rebuilds>>
  ELSE /\ lockContent' = "well-formed"
       /\ rebuilds' = rebuilds + 1

\* one more event is delivered to the listener
Delivered(event) ==
  /\ nEvents < MaxEvents
  /\ nEvents' = nEvents + 1
  /\ lastEvent' = event

\* 'configLoaded': emitted by the CLI at boot (generate or --mcp) and by the
\* daemon after a reload of a valid configuration
OnConfigLoaded(version, mcp) ==
  /\ emitterPhase \in {"boot", "daemon"}
  /\ Delivered("configLoaded")
  /\ emitterPhase' = IF emitterPhase = "daemon" THEN "daemon"
                     ELSE IF mcp THEN "mcp" ELSE "loaded"
  /\ config' = version
  /\ lockFilePath' = "shadowdog-lock.json"
  /\ IF detectAndResolveConflicts(lockContent)
     THEN regenerateLockFile(version)
     ELSE UNCHANGED <<lockContent, rebuilds>>
  /\ UNCHANGED <<isInGenerateMode, outsideListener>>

\* 'generateStarted': emitted by the CLI before generate
OnGenerateStarted ==
  /\ emitterPhase = "loaded"
  /\ Delivered("generateStarted")
  /\ emitterPhase' = "generate"
  /\ isInGenerateMode' = TRUE
  /\ UNCHANGED <<config, lockFilePath, lockContent, rebuilds, outsideListener>>

\* 'allTasksComplete': emitted by the CLI when generate resolved; the CLI then
\* runs the daemon (--watch) or exits
OnAllTasksComplete ==
  /\ emitterPhase = "generate"
  /\ Delivered("allTasksComplete")
  /\ emitterPhase' = IF watch THEN "daemon" ELSE "done"
  /\ isInGenerateMode' = FALSE
  /\ regenerateLockFile(config)
  /\ UNCHANGED <<config, lockFilePath, outsideListener>>

\* generate rejected: the CLI exits with status 1 and emits no allTasksComplete
GenerateFailed ==
  /\ emitterPhase = "generate"
  /\ emitterPhase' = "done"
  /\ UNCHANGED <<config, lockFilePath, isInGenerateMode, lockContent, rebuilds,
                 lastEvent, nEvents, outsideListener>>

\* 'begin': records the start times, which the rebuild decision does not read
OnBegin ==
  /\ emitterPhase \in {"generate", "daemon"}
  /\ Delivered("begin")
  /\ UNCHANGED <<emitterPhase, config, lockFilePath, isInGenerateMode, lockContent,
                 rebuilds, outsideListener>>

\* 'end': records the execution times, then rebuilds outside generate mode
OnEnd ==
  /\ emitterPhase \in {"generate", "daemon"}
  /\ Delivered("end")
  /\ IF EndRebuilds(isInGenerateMode, config, lockFilePath)
     THEN regenerateLockFile(config)
     ELSE UNCHANGED <<lockContent, rebuilds>>
  /\ UNCHANGED <<emitterPhase, config, lockFilePath, isInGenerateMode, outsideListener>>

\* 'initialized': emitted by runDaemon and by --mcp; the listener has no
\* subscriber for it
OnInitialized ==
  /\ emitterPhase \in {"daemon", "mcp"}
  /\ Delivered("initialized")
  /\ UNCHANGED <<emitterPhase, config, lockFilePath, isInGenerateMode, lockContent,
                 rebuilds, outsideListener>>

\* the lock file is changed outside shadowdog (a merge, an edit, a removal)
LockFileEdited(content) ==
  /\ emitterPhase = "daemon"
  /\ nEvents < MaxEvents
  /\ lockContent # content
  /\ lockContent' = content
  /\ UNCHANGED <<emitterPhase, config, lockFilePath, isInGenerateMode, rebuilds,
                 lastEvent, nEvents, outsideListener>>

\* the listener's variables while no event is modelled
ListenerIdle ==
  /\ emitterPhase = "boot"
  /\ config = 0
  /\ lockFilePath = ""
  /\ isInGenerateMode = FALSE
  /\ lockContent = "missing"
  /\ rebuilds = 0
  /\ lastEvent = "none"
  /\ nEvents = 0

\* ------------------------------------------------------------------------
\* The daemon's reload of the configuration file
\* ------------------------------------------------------------------------

\* a loadConfig that accepts every file
NeverFails(valid) == FALSE

\* loadConfig: JSON.parse or configSchema.parse throws on a file that does not
\* load or validate
LoadFails(valid) == ~valid

\* configWatcher 'change' (debounced), up to its first await: shadowdog.json
\* was replaced by a version that loads (valid) or does not. A failed load is
\* caught and logged; a successful one is assigned to currentConfig, announced
\* by configLoaded, and the current watchers are closed.
ConfigFileChanged(valid) ==
  /\ ProcessAlive
  /\ fileVersion <= MaxChanges
  /\ fileVersion' = fileVersion + 1
  /\ invalidVersions' = IF valid THEN invalidVersions
                        ELSE invalidVersions \cup {fileVersion + 1}
  /\ pipelines' = {}
  /\ IF LoadFails(valid)
     THEN UNCHANGED <<currentConfig, currentWatchers, watching, restarts>>
     ELSE /\ currentConfig' = fileVersion + 1
          /\ watching' = watching \ {currentWatchers}
          /\ restarts' = restarts + 1
          /\ UNCHANGED currentWatchers
  /\ UNCHANGED debouncing
  /\ UNCHANGED outsideReload

\* the rest of the handler: currentWatchers = await setupWatchers(currentConfig,
\* ...), which rejects (caught and logged) when a watcher reports an error
WatchersRestarted(ok) ==
  /\ ProcessAlive
  /\ restarts > 0
  /\ restarts' = restarts - 1
  /\ IF ok
     THEN /\ currentWatchers' = currentConfig
          /\ watching' = watching \cup {currentConfig}
     ELSE UNCHANGED <<currentWatchers, watching>>
  /\ UNCHANGED <<fileVersion, invalidVersions, currentConfig, debouncing, pipelines>>
  /\ UNCHANGED outsideReload

\* an open watcher reports a file event: the debounced wrapper of the handler
\* its setupWatchers call registered arms its timer
WatcherEvent(v) ==
  /\ ProcessAlive
  /\ v \in watching
  /\ debouncing' = debouncing \cup {v}
  /\ UNCHANGED <<fileVersion, invalidVersions, currentConfig, currentWatchers,
                 watching, restarts, pipelines>>
  /\ UNCHANGED outsideReload

\* the timer fires: the watcher callback starts a pipeline with the
\* configuration that was given to the setupWatchers call that made the
\* watcher. watcher.close() stops the events, not the timers of debounce().
WatcherPipeline(v) ==
  /\ ProcessAlive
  /\ v \in debouncing
  /\ debouncing' = debouncing \ {v}
  /\ pipelines' = pipelines \cup {[trigger |-> "fs", config |-> v]}
  /\ UNCHANGED <<fileVersion, invalidVersions, currentConfig, currentWatchers,
                 watching, restarts>>
  /\ UNCHANGED outsideReload

\* the computeArtifact listener starts a pipeline with currentConfig
ComputePipeline ==
  /\ ProcessAlive
  /\ pipelines' = pipelines \cup {[trigger |-> "rpc", config |-> currentConfig]}
  /\ UNCHANGED <<fileVersion, invalidVersions, currentConfig, currentWatchers,
                 watching, restarts, debouncing>>
  /\ UNCHANGED outsideReload

\* the daemon after runDaemon set up the watchers of the configuration it was
\* given
ReloadIdle ==
  /\ fileVersion = 1
  /\ invalidVersions = {}
  /\ currentConfig = 1
  /\ currentWatchers = 1
  /\ watching = {1}
  /\ restarts = 0
  /\ debouncing = {}
  /\ pipelines = {}

\* ------------------------------------------------------------------------
\* Dependency layering: the command plugin shadowdog-tree and the walk of the
\* tree it returns
\* ------------------------------------------------------------------------

\* the paths that commands declare as files and as artifact outputs
TreePaths == {"o", "q"}

\* the lists of distinct paths
PathLists ==
  {<<>>} \cup {<<x>> : x \in TreePaths}
         \cup {<<x, y>> : <<x, y>> \in {pr \in TreePaths \X TreePaths : pr[1] # pr[2]}}

\* TaskInDependencyGraphFormat: task.files and the outputs of task.config.artifacts
DependencyObjects == [files : PathLists, outputs : SUBSET TreePaths]

\* the larger of two levels (Math.max)
MaxLevel(a, b) == IF a >= b THEN a ELSE b

\* buildGraph: outputIndex.get(file) after outputIndex.set(output, obj) for each
\* object in order: the last object that declares the output, 0 for undefined
outputIndex(objects, file) ==
  LET producers == {i \in DOMAIN objects : file \in objects[i].outputs}
  IN IF producers = {} THEN 0
     ELSE CHOOSE i \in producers : \A j \in producers : j <= i

\* buildGraph: node.dependencies, a Set in insertion order, filled from the
\* files of the object in order
RECURSIVE dependencies(_, _, _)
dependencies(objects, files, acc) ==
  IF files = <<>> THEN acc
  ELSE LET dep == outputIndex(objects, Head(files))
       IN dependencies(objects, Tail(files),
                       IF dep = 0 \/ dep \in Range(acc) THEN acc ELSE Append(acc, dep))

\* topologicalSort: visit(node, level) and its loop over node.dependencies.
\* st holds visited, temp, levels, the insertion order of the Map levels and
\* whether 'Circular dependency detected' was thrown; ret is the level returned.
RECURSIVE visit(_, _, _, _)
RECURSIVE visitDependencies(_, _, _, _, _)
visit(objects, node, level, st) ==
  IF st.thrown THEN [st |-> st, ret |-> 0]
  ELSE IF node \in st.temp THEN [st |-> [st EXCEPT !.thrown = TRUE], ret |-> 0]
  ELSE IF node \in st.visited THEN [st |-> st, ret |-> st.levels[node]]
  ELSE LET r == visitDependencies(objects,
                                  dependencies(objects, objects[node].files, <<>>),
                                  level, level,
                                  [st EXCEPT !.temp = @ \cup {node}])
       IN IF r.st.thrown THEN [st |-> r.st, ret |-> 0]
          ELSE [st |-> [r.st EXCEPT !.temp = @ \ {node},
                                    !.visited = @ \cup {node},
                                    !.levels[node] = r.ret,
                                    !.order = Append(@, node)],
                ret |-> r.ret]

visitDependencies(objects, deps, level, maxChildLevel, st) ==
  IF deps = <<>> \/ st.thrown THEN [st |-> st, ret |-> maxChildLevel]
  ELSE LET r == visit(objects, Head(deps), level + 1, st)
       IN visitDependencies(objects, Tail(deps), level,
                            MaxLevel(maxChildLevel, r.ret + 1), r.st)

\* topologicalSort: for (const node of this.nodes.values()) if (!visited.has(node))
\* visit(node)
RECURSIVE visitAll(_, _, _)
visitAll(objects, node, st) ==
  IF node > Len(objects) \/ st.thrown THEN st
  ELSE visitAll(objects, node + 1,
                IF node \in st.visited THEN st ELSE visit(objects, node, 0, st).st)

\* topologicalSort of the graph of the objects
topologicalSort(objects) ==
  visitAll(objects, 1,
           [visited |-> {}, temp |-> {}, levels |-> [n \in DOMAIN objects |-> 0],
            order |-> <<>>, thrown |-> FALSE])

\* getStructure().byLevel: the nodes of each level that has nodes
getStructure(objects, levels) ==
  [l \in {levels[n] : n \in DOMAIN objects} |-> {n \in DOMAIN objects : levels[n] = l}]

\* getStructure().byLevel[level] as an array: Array.from of the Set of the
\* level, which was filled by iterating the Map levels in insertion order
levelArray(objects, st, level) ==
  LET RECURSIVE pick(_)
      pick(k) == IF k > Len(st.order) THEN <<>>
                 ELSE (IF st.levels[st.order[k]] = level THEN <<st.order[k]>> ELSE <<>>)
                      \o pick(k + 1)
  IN pick(1)

\* Object.values(structure.byLevel): integer keys are enumerated in ascending
\* order, so the k-th parallel layer is the k-th smallest level
RECURSIVE parallelTasks(_, _)
parallelTasks(structure, from) ==
  LET rest == {l \in DOMAIN structure : l >= from}
  IN IF rest = {} THEN <<>>
     ELSE LET l == CHOOSE x \in rest : \A y \in rest : x <= y
          IN <<structure[l]>> \o parallelTasks(structure, l + 1)

\* the layers of the serial task that organizeTasksInLayers returns
Layers == parallelTasks(byLevel, 0)

\* visit: new Error('Circular dependency detected'), as the words of its message
CircularDependencyError == <<"Circular", "dependency", "detected">>

\* command plugin: organizeTasksInLayers(task.tasks) for the parallel task of
\* generate; a circular dependency throws and generate fails
organizeTasksInLayers ==
  /\ treePhase = "plugin"
  /\ LET st == topologicalSort(commandTasks)
     IN IF st.thrown
        THEN /\ treePhase' = "circular"
             /\ thrown' = CircularDependencyError
             /\ UNCHANGED byLevel
        ELSE /\ treePhase' = "walking"
             /\ byLevel' = getStructure(commandTasks, st.levels)
             /\ UNCHANGED thrown
  /\ UNCHANGED <<commandTasks, layer, begun, finished>>
  /\ UNCHANGED outsideLayers

\* processTask of the serial task: the next parallel layer is started when the
\* Promise.all of the one before has resolved; each of its commands emits begin
LayerStarts ==
  /\ treePhase = "walking"
  /\ layer < Len(Layers)
  /\ layer > 0 => Layers[layer] \subseteq finished
  /\ layer' = layer + 1
  /\ begun' = begun \cup Layers[layer + 1]
  /\ UNCHANGED <<commandTasks, byLevel, treePhase, finished, thrown>>
  /\ UNCHANGED outsideLayers

\* the run of a command settles
CommandFinishes(n) ==
  /\ treePhase = "walking"
  /\ n \in begun \ finished
  /\ finished' = finished \cup {n}
  /\ UNCHANGED <<commandTasks, byLevel, treePhase, layer, begun, thrown>>
  /\ UNCHANGED outsideLayers

\* the serial task resolves after its last layer
WalkResolves ==
  /\ treePhase = "walking"
  /\ layer = Len(Layers)
  /\ layer > 0 => Layers[layer] \subseteq finished
  /\ treePhase' = "walked"
  /\ UNCHANGED <<commandTasks, byLevel, layer, begun, finished, thrown>>
  /\ UNCHANGED outsideLayers

\* the plugin's variables while no tree is modelled
LayersIdle ==
  /\ commandTasks = <<>>
  /\ byLevel = <<>>
  /\ treePhase = "plugin"
  /\ layer = 0
  /\ begun = {}
  /\ finished = {}
  /\ thrown = <<>>

\* ------------------------------------------------------------------------
\* Command plugins: the task generate builds and each plugin's command
\* ------------------------------------------------------------------------
\* the config of a task that is not a command
NoConfig ==
  [rake |-> FALSE, args |-> <<>>, workingDirectory |-> "", tags |-> <<>>,
   artifacts |-> <<>>]

\* the Task union of generate.ts, as nested values.  rake: the command matches
\* RAKE_COMMAND_REGEX; args: the rake tasks it names
Command(cfg, files) == [type |-> "command", tasks |-> <<>>, config |-> cfg, files |-> files]

Empty == [type |-> "empty", tasks |-> <<>>, config |-> NoConfig, files |-> <<>>]

Parallel(ts) == [type |-> "parallel", tasks |-> ts, config |-> NoConfig, files |-> <<>>]

Serial(ts) == [type |-> "serial", tasks |-> ts, config |-> NoConfig, files |-> <<>>]

\* the watched files and the artifact of a command: one that depends on
\* nothing and one that reads the artifact of the first
TaskShapes ==
  { [files |-> <<>>, artifacts |-> <<"o">>],
    [files |-> <<"o">>, artifacts |-> <<"q">>] }

\* the command tasks generate builds from the watchers of a configuration;
\* only the working directory of a rake command is ever read
ConfiguredCommands ==
  { c \in { Command([rake |-> r, args |-> IF r THEN sh.artifacts ELSE <<>>,
                     workingDirectory |-> wd, tags |-> tg, artifacts |-> sh.artifacts],
                    sh.files) :
             r \in BOOLEAN, wd \in {"", "api"}, tg \in {<<>>, <<"t">>},
             sh \in TaskShapes } :
      c.config.rake \/ c.config.workingDirectory = "" }

\* the most commands of a configuration
MaxPlanned == 3

\* the names of the command plugins
CommandPluginNames == {"shadowdog-tag", "shadowdog-rake", "shadowdog-tree"}

\* filterCommandPlugins(config.plugins): the configured command plugins, each
\* at most once, in the order of the configuration
PluginLists ==
  {<<>>} \cup {<<a>> : a \in CommandPluginNames}
         \cup {l \in CommandPluginNames \X CommandPluginNames : l[1] # l[2]}
         \cup {l \in CommandPluginNames \X CommandPluginNames \X CommandPluginNames :
                 l[1] # l[2] /\ l[1] # l[3] /\ l[2] # l[3]}

\* flat(): the concatenation of the lists of a list
RECURSIVE Flatten(_)
Flatten(lists) == IF lists = <<>> THEN <<>> ELSE Head(lists) \o Flatten(Tail(lists))

\* filterCommandTasks(tasks).commandTasks
commandTasksOf(tasks) == SelectSeq(tasks, LAMBDA t : t.type = "command")

\* filterCommandTasks(tasks).otherTasks
otherTasksOf(tasks) == SelectSeq(tasks, LAMBDA t : t.type # "command")

\* shadowdog-tag: a command without the tag becomes Empty
RECURSIVE filterTags(_, _)
filterTags(task, tag) ==
  IF task.type \in {"parallel", "serial"}
  THEN [task EXCEPT !.tasks = [i \in DOMAIN task.tasks |-> filterTags(task.tasks[i], tag)]]
  ELSE IF task.type = "command"
  THEN IF tag \in Range(task.config.tags) THEN task ELSE Empty
  ELSE task

\* shadowdog-tag's command: without SHADOWDOG_TAG the task is returned as is
tagCommand(task, tag) == IF tag = "" THEN task ELSE filterTags(task, tag)

\* the keys of tasksByWorkingDirectory in insertion order
RECURSIVE workingDirectories(_, _)
workingDirectories(tasks, acc) ==
  IF tasks = <<>> THEN acc
  ELSE workingDirectories(Tail(tasks),
                          IF Head(tasks).config.workingDirectory \in Range(acc) THEN acc
                          ELSE Append(acc, Head(tasks).config.workingDirectory))

\* a fused command that declares the watched files of its tasks as artifacts too
fusedArtifactsAndFiles(tasks) ==
  Flatten([i \in DOMAIN tasks |-> tasks[i].config.artifacts \o tasks[i].files])

\* collapseRakeTasks: tasksInWorkingDirectory.flatMap(w => w.config.artifacts)
fusedArtifacts(tasks) == Flatten([i \in DOMAIN tasks |-> tasks[i].config.artifacts])

\* collapseRakeTasks: the fused command of the rake tasks of one directory
fusedTask(tasks, wd) ==
  LET inDir == SelectSeq(tasks, LAMBDA t : t.config.workingDirectory = wd)
  IN Command([rake |-> TRUE,
              args |-> Flatten([i \in DOMAIN inDir |-> inDir[i].config.args]),
              workingDirectory |-> wd,
              tags |-> Flatten([i \in DOMAIN inDir |-> inDir[i].config.tags]),
              artifacts |-> fusedArtifacts(inDir)],
             Flatten([i \in DOMAIN inDir |-> inDir[i].files]))

\* shadowdog-rake: one 'bundle exec rake a b ...' per working directory
collapseRakeTasks(tasks) ==
  IF tasks = <<>> THEN Empty
  ELSE LET wds == workingDirectories(tasks, <<>>)
       IN Parallel([k \in DOMAIN wds |-> fusedTask(tasks, wds[k])])

\* shadowdog-rake's command: a serial task maps over its sub-tasks; a parallel
\* task keeps its other tasks and its non-rake commands and gets the fused one
RECURSIVE rakeCommand(_)
rakeCommand(task) ==
  IF task.type = "serial"
  THEN [task EXCEPT !.tasks = [i \in DOMAIN task.tasks |-> rakeCommand(task.tasks[i])]]
  ELSE IF task.type = "parallel"
  THEN LET cmds == commandTasksOf(task.tasks)
       IN [task EXCEPT !.tasks =
             otherTasksOf(task.tasks)
               \o SelectSeq(cmds, LAMBDA t : ~t.config.rake)
               \o <<collapseRakeTasks(SelectSeq(cmds, LAMBDA t : t.config.rake))>>]
  ELSE task

\* shadowdog-tree's command: organizeTasksInLayers(task.tasks) for a parallel
\* task, the task itself otherwise.  thrown: a circular dependency was found
treeCommand(task) ==
  IF task.type # "parallel" THEN [thrown |-> FALSE, task |-> task]
  ELSE LET cmds == commandTasksOf(task.tasks)
           objects == [i \in DOMAIN cmds |->
                         [files |-> cmds[i].files,
                          outputs |-> Range(cmds[i].config.artifacts)]]
           st == topologicalSort(objects)
           structure == getStructure(objects, st.levels)
           levels == parallelTasks(structure, 0)
           level(k) == levelArray(objects, st,
                                  CHOOSE l \in DOMAIN structure : structure[l] = levels[k])
       IN IF st.thrown THEN [thrown |-> TRUE, task |-> task]
          ELSE [thrown |-> FALSE,
                task |-> Serial([k \in DOMAIN levels |->
                                   Parallel([j \in DOMAIN level(k) |-> cmds[level(k)[j]]])]
                                \o otherTasksOf(task.tasks))]

\* the outputs of the artifacts of every command of a task
RECURSIVE artifactsOf(_)
artifactsOf(task) ==
  IF task.type = "command" THEN Range(task.config.artifacts)
  ELSE UNION {artifactsOf(task.tasks[i]) : i \in DOMAIN task.tasks}

\* the next step of plugins.reduce applies the plugin of this name
Reducing(name) ==
  /\ commandPlugins # <<>>
  /\ Head(commandPlugins) = name
  /\ ~pluginThrew
  /\ commandPlugins' = Tail(commandPlugins)

\* plugins.reduce: fn.command of shadowdog-tag
TagCommand ==
  /\ Reducing("shadowdog-tag")
  /\ finalTask' = tagCommand(finalTask, shadowdogTag)
  /\ UNCHANGED <<originalTask, shadowdogTag, pluginThrew>>
  /\ UNCHANGED outsidePlugins

\* plugins.reduce: fn.command of shadowdog-rake
RakeCommand ==
  /\ Reducing("shadowdog-rake")
  /\ finalTask' = rakeCommand(finalTask)
  /\ UNCHANGED <<originalTask, shadowdogTag, pluginThrew>>
  /\ UNCHANGED outsidePlugins

\* plugins.reduce: fn.command of shadowdog-tree; its throw rejects generate
TreeCommand ==
  /\ Reducing("shadowdog-tree")
  /\ LET r == treeCommand(finalTask)
     IN /\ pluginThrew' = r.thrown
        /\ finalTask' = r.task
  /\ UNCHANGED <<originalTask, shadowdogTag>>
  /\ UNCHANGED outsidePlugins

\* the plugin variables while no reduce is modelled
PluginsIdle ==
  /\ originalTask = Empty
  /\ finalTask = Empty
  /\ commandPlugins = <<>>
  /\ shadowdogTag = ""
  /\ pluginThrew = FALSE

\* ------------------------------------------------------------------------
\* Cache keys: computeCache
\* ------------------------------------------------------------------------
\* the longest text of a path, a file, an environment value or a command
MaxText == 2

\* texts, as lists of characters
Texts == UNION {[1..n -> {"a"}] : n \in 0..MaxText}

\* a watched file: its resolved path and what readFileSync returns for it
WatchedFiles == [path : Texts \ {<<>>}, content : Texts]

\* process.env[env] of a variable that is not set (no text holds this word)
Undefined == <<"undefined">>

\* the inputs of a call: the files in order, process.env[env] of the
\* invalidator environment variable, and the command string
CacheInputs ==
  [files : {<<>>} \cup {<<f>> : f \in WatchedFiles},
   environment : Texts \cup {Undefined},
   command : Texts \ {<<>>}]

\* readShadowdogVersion() followed by process.version: the same for both calls
Versions == <<"v">>

\* files.forEach: hash.update(filePath); hash.update(readFileSync(...))
RECURSIVE updateFiles(_, _)
updateFiles(hash, files) ==
  IF files = <<>> THEN hash
  ELSE updateFiles(hash \o Head(files).path \o Head(files).content, Tail(files))

\* computeCache: the bytes fed to the HMAC by the successive hash.update calls.
\* The digest is taken as collision-free: two keys are equal exactly when the
\* bytes digested are
computeCache(in) ==
  updateFiles(<<>>, in.files)
    \o (IF in.environment = Undefined THEN <<>> ELSE in.environment)
    \o in.command
    \o Versions

\* two calls of computeCache
ComputeCacheKeys ==
  /\ cacheKeys = <<>>
  /\ cacheKeys' = <<computeCache(cacheInputs[1]), computeCache(cacheInputs[2])>>
  /\ UNCHANGED cacheInputs
  /\ UNCHANGED outsideCacheKeys

\* the variables while no key is computed
CacheKeysIdle ==
  /\ cacheInputs = <<>>
  /\ cacheKeys = <<>>

\* ------------------------------------------------------------------------
\* PID lock: the middleware and the listeners of shadowdog-lock
\* ------------------------------------------------------------------------
\* the commands whose pipelines this process runs
LockCommands == 1..MaxCommands

\* fs.existsSync(lockFile)
lockExists(lock) == lock # "none"

\* a process that takes every lock file for its own
ownsAnyLock(lock) == TRUE

\* fs.readFileSync(lockFile) === process.pid.toString(), for a file that exists
isLockOwner(lock) == lock = "self"

\* the 'begin' listener: write the pid if there is no lock file, then count
\* the command if the file holds this pid
onBegin(lock, n) ==
  LET written == IF ~lockExists(lock) THEN "self" ELSE lock
  IN [lock |-> written, counter |-> IF isLockOwner(written) THEN n + 1 ELSE n]

\* a decrement that unlinks the lock of this process whatever the counter is
unlinkOnEveryEnd(lock, n) ==
  IF lockExists(lock) /\ isLockOwner(lock)
  THEN [lock |-> "none", counter |-> n - 1]
  ELSE [lock |-> lock, counter |-> n]

\* handleCounterDecrement, the listener of 'end' and of 'error'
handleCounterDecrement(lock, n) ==
  IF ~lockExists(lock) THEN [lock |-> lock, counter |-> n]
  ELSE IF isLockOwner(lock)
  THEN [lock |-> IF n - 1 = 0 THEN "none" ELSE lock, counter |-> n - 1]
  ELSE [lock |-> lock, counter |-> n]

\* the 'exit' listener: unlink the lock if it holds this pid
onExit(lock) == IF lockExists(lock) /\ isLockOwner(lock) THEN "none" ELSE lock

\* this process has not exited
LockProcessAlive == lockProcess # "exited"

\* a pipeline starts: the watcher callback or processTask emits 'begin' before
\* it executes the chain
BeginEmitted(c) ==
  /\ LockProcessAlive
  /\ lockRuns[c] = "idle"
  /\ lockRuns' = [lockRuns EXCEPT ![c] = "begun"]
  /\ pidLock' = onBegin(pidLock, counter).lock
  /\ counter' = onBegin(pidLock, counter).counter
  /\ UNCHANGED <<lockProcess, exitStatus, lockFirst>>
  /\ UNCHANGED outsidePidLock

\* the chain reaches the lock middleware: a lock of another process makes it
\* return exit(eventEmitter, 1), which calls the 'exit' listeners and leaves
\* process.exit(1) pending; otherwise it returns next()
LockMiddleware(c) ==
  /\ LockProcessAlive
  /\ lockRuns[c] = "begun"
  /\ IF lockExists(pidLock) /\ ~isLockOwner(pidLock)
     THEN /\ lockRuns' = [lockRuns EXCEPT ![c] = "blocked"]
          /\ pidLock' = onExit(pidLock)
          /\ lockProcess' = "exiting"
          /\ exitStatus' = IF exitStatus = -1 THEN 1 ELSE exitStatus
     ELSE /\ lockRuns' = [lockRuns EXCEPT ![c] = "running"]
          /\ UNCHANGED <<pidLock, lockProcess, exitStatus>>
  /\ UNCHANGED <<counter, lockFirst>>
  /\ UNCHANGED outsidePidLock

\* a middleware registered before the lock one calls abort(): the chain
\* settles without reaching the lock middleware and 'end' is emitted
AbortedBeforeLock(c) ==
  /\ LockProcessAlive
  /\ ~lockFirst
  /\ lockRuns[c] = "begun"
  /\ lockRuns' = [lockRuns EXCEPT ![c] = "done"]
  /\ pidLock' = handleCounterDecrement(pidLock, counter).lock
  /\ counter' = handleCounterDecrement(pidLock, counter).counter
  /\ UNCHANGED <<lockProcess, exitStatus, lockFirst>>
  /\ UNCHANGED outsidePidLock

\* the chain of a command that ran settles: 'end' or 'error' is emitted, and
\* both have the same listener
CommandSettled(c) ==
  /\ LockProcessAlive
  /\ lockRuns[c] = "running"
  /\ lockRuns' = [lockRuns EXCEPT ![c] = "done"]
  /\ pidLock' = handleCounterDecrement(pidLock, counter).lock
  /\ counter' = handleCounterDecrement(pidLock, counter).counter
  /\ UNCHANGED <<lockProcess, exitStatus, lockFirst>>
  /\ UNCHANGED outsidePidLock

\* exit: the listeners have settled and process.exit(code) runs
ProcessExits ==
  /\ lockProcess = "exiting"
  /\ lockProcess' = "exited"
  /\ UNCHANGED <<pidLock, counter, lockRuns, exitStatus, lockFirst>>
  /\ UNCHANGED outsidePidLock

\* another shadowdog process begins a command while there is no lock file
OtherProcessBegins ==
  /\ pidLock = "none"
  /\ pidLock' = "other"
  /\ UNCHANGED <<counter, lockRuns, lockProcess, exitStatus, lockFirst>>
  /\ UNCHANGED outsidePidLock

\* the other process ends its last command and unlinks its lock
OtherProcessEnds ==
  /\ pidLock = "other"
  /\ pidLock' = "none"
  /\ UNCHANGED <<counter, lockRuns, lockProcess, exitStatus, lockFirst>>
  /\ UNCHANGED outsidePidLock

\* the variables while the plugin is not modelled
PidLockIdle ==
  /\ pidLock = "none"
  /\ counter = 0
  /\ lockRuns = <<>>
  /\ lockProcess = "running"
  /\ exitStatus = -1
  /\ lockFirst = TRUE

\* ------------------------------------------------------------------------
\* Temporary extraction directories of restoreCache (local and remote cache)
\* ------------------------------------------------------------------------
\* the most restoreCache invocations in flight
MaxRestores == 2

\* the last millisecond of the clock
MaxClock == 2

Invocations == 1..MaxRestores

\* the two cache middlewares
CacheMiddlewares == {"local", "remote"}

\* computeFileCacheName(currentCache, artifact.output) of the artifacts restored
CacheFileNames == {"k1", "k2"}

NoTemp == <<>>

\* tempOutputPath: the directory (the cache path, or os.tmpdir()), the prefix
\* of the middleware, the cache file name and Date.now()
tempOutputPath(mw, cacheFileName, t) ==
  IF mw = "local" THEN <<"cachePath", ".temp-", cacheFileName, t>>
  ELSE <<"tmpdir", "shadowdog-remote-cache-temp-", cacheFileName, t>>

\* restoreCache finds the cache object and the artifact on disk, and extracts
\* the object to a temporary directory to compare the SHAs
ExtractToTemp(r, mw, cacheFileName) ==
  /\ restores[r].pc = "idle"
  /\ restores' = [restores EXCEPT ![r] =
                    [pc |-> "extracting", temp |-> tempOutputPath(mw, cacheFileName, now)]]
  /\ UNCHANGED now
  /\ UNCHANGED outsideRestore

\* await fs.remove(tempOutputPath), on every path out of the verification
RemoveTemp(r) ==
  /\ restores[r].pc = "extracting"
  /\ restores' = [restores EXCEPT ![r] = [pc |-> "idle", temp |-> NoTemp]]
  /\ UNCHANGED now
  /\ UNCHANGED outsideRestore

\* a millisecond passes
ClockTicks ==
  /\ now < MaxClock
  /\ now' = now + 1
  /\ UNCHANGED restores
  /\ UNCHANGED outsideRestore

\* no restoreCache is modelled
RestoreIdle ==
  /\ now = 0
  /\ restores = <<>>

\* ------------------------------------------------------------------------
\* Rebase guard: the middleware of shadowdog-git and its polling timer
\* ------------------------------------------------------------------------
\* the most pipelines that reach the middleware
MaxGitEvents == 3

\* the most rebases
MaxRebases == 2

\* the count of touches above which touches are no longer told apart
MaxTouches == 2

\* the changed paths
GitPaths == {"f1", "f2"}

\* uniq([...pendingChangedFiles, changedFilePath])
uniq(pending, path) == IF path \in Range(pending) THEN pending ELSE Append(pending, path)

\* fs.utimesSync(filePath, now, now) throws ENOENT for a path that does not exist
utimesThrows(disk, path) == ~disk[path]

\* pendingChangedFiles.forEach(utimesSync): the touches made, and whether a
\* call threw, which ends the forEach
RECURSIVE touchAll(_, _, _)
touchAll(pending, counts, disk) ==
  IF pending = <<>> THEN [touches |-> counts, threw |-> FALSE]
  ELSE IF utimesThrows(disk, Head(pending)) THEN [touches |-> counts, threw |-> TRUE]
  ELSE touchAll(Tail(pending),
                [counts EXCEPT ![Head(pending)] = IF @ < MaxTouches THEN @ + 1 ELSE @],
                disk)

\* the middleware, for a pipeline with a changedFilePath: during a rebase the
\* path is made pending, the polling timer is armed if there is none, and the
\* pipeline is aborted; otherwise next() is called
GitMiddleware(path) ==
  /\ gitProcess = "running"
  /\ nGitEvents < MaxGitEvents
  /\ nGitEvents' = nGitEvents + 1
  /\ IF rebasing
     THEN /\ gitPending' = uniq(gitPending, path)
          /\ touches' = IF path \in Range(gitPending) THEN touches
                        ELSE [touches EXCEPT ![path] = 0]
          /\ IF timeoutId = "null"
             THEN timeoutId' = "set" /\ intervals' = intervals + 1
             ELSE UNCHANGED <<timeoutId, intervals>>
     ELSE UNCHANGED <<gitPending, touches, timeoutId, intervals>>
  /\ UNCHANGED <<rebasing, onDisk, gitProcess, nRebases>>
  /\ UNCHANGED outsideGit

\* the callback of setInterval: once the rebase is over, touch the pending
\* paths, empty the list and clear the timer.  A utimesSync that throws
\* rejects the async callback before the list is emptied and the timer
\* cleared; the rejection is unhandled, which ends the process (crash) or is
\* only reported, depending on the runtime
Poll(crash) ==
  /\ gitProcess = "running"
  /\ intervals > 0
  /\ IF rebasing
     THEN /\ ~crash
          /\ UNCHANGED <<touches, gitPending, timeoutId, intervals, gitProcess>>
     ELSE LET r == touchAll(gitPending, touches, onDisk)
          IN /\ touches' = r.touches
             /\ IF r.threw
                THEN /\ gitProcess' = IF crash THEN "crashed" ELSE "running"
                     /\ UNCHANGED <<gitPending, timeoutId, intervals>>
                ELSE /\ ~crash
                     /\ gitPending' = <<>>
                     /\ intervals' = IF timeoutId = "set" THEN intervals - 1 ELSE intervals
                     /\ timeoutId' = "null"
                     /\ UNCHANGED gitProcess
  /\ UNCHANGED <<rebasing, onDisk, nGitEvents, nRebases>>
  /\ UNCHANGED outsideGit

\* git starts a rebase: .git/rebase-merge appears
RebaseStarts ==
  /\ ~rebasing
  /\ nRebases < MaxRebases
  /\ rebasing' = TRUE
  /\ nRebases' = nRebases + 1
  /\ UNCHANGED <<timeoutId, intervals, gitPending, touches, onDisk, gitProcess, nGitEvents>>
  /\ UNCHANGED outsideGit

\* the rebase ends: .git/rebase-merge is removed
RebaseEnds ==
  /\ rebasing
  /\ rebasing' = FALSE
  /\ UNCHANGED <<timeoutId, intervals, gitPending, touches, onDisk, gitProcess,
                 nGitEvents, nRebases>>
  /\ UNCHANGED outsideGit

\* the plugin's variables while it is not modelled
GitIdle ==
  /\ rebasing = FALSE
  /\ timeoutId = "null"
  /\ intervals = 0
  /\ gitPending = <<>>
  /\ touches = <<>>
  /\ onDisk = <<>>
  /\ gitProcess = "running"
  /\ nGitEvents = 0
  /\ nRebases = 0

\* ------------------------------------------------------------------------
\* Specifications
\* ------------------------------------------------------------------------
\* a shutdown trigger that finds no shutdown under way
NeverShuttingDown(flag) == FALSE

\* shutdown: if (isShuttingDown) return
AlreadyShuttingDown(flag) == flag

\* SIGINT, SIGTERM or beforeExit: the first trigger sets isShuttingDown and
\* calls exit(eventEmitter, 0), which invokes the 'exit' subscribers
shutdown ==
  /\ ProcessAlive
  /\ nInputs < MaxInputs
  /\ nInputs' = nInputs + 1
  /\ request' = "shutdown"
  /\ signals' = signals + 1
  /\ IF AlreadyShuttingDown(isShuttingDown)
     THEN UNCHANGED <<isShuttingDown, cliPhase, exitCode, exitCalls>>
     ELSE /\ isShuttingDown' = TRUE
          /\ cliPhase' = "exiting"
          /\ exitCode' = 0
          /\ exitCalls' = exitCalls + 1
  /\ UNCHANGED <<plugins, isPaused, pendingTasks, watcherTasks, sameArray, timers,
                 runs, lastEnd, mcpPaused, pendingChangedFiles, droppedChanges>>
  /\ UNCHANGED <<taskTree, artifacts, taskStatus, taskEvents, watch, entryPoint>>
  /\ UNCHANGED <<runnerVars, lockVars, listenerVars, reloadVars, layerVars,
    pluginVars,
    cacheKeyVars,
    pidLockVars,
    restoreVars,
    gitVars>>

DaemonInit ==
  /\ plugins \in {{}, {"shadowdog-local-cache"}}
  /\ isPaused = FALSE
  /\ pendingTasks = <<>>
  /\ watcherTasks = <<>>
  /\ sameArray = TRUE
  /\ timers = [w \in Watchers |-> [k \in Kinds |-> NoPath]]
  /\ runs = <<>>
  /\ lastEnd = 0
  /\ mcpPaused = FALSE
  /\ pendingChangedFiles = <<>>
  /\ nInputs = 0
  /\ request = "none"
  /\ droppedChanges = {}
  /\ isShuttingDown = FALSE
  /\ signals = 0

Init ==
  /\ DaemonInit
  /\ RunnerIdle
  /\ GeneratorIdle
  /\ LockWriterIdle
  /\ ListenerIdle
  /\ ReloadIdle
  /\ LayersIdle
  /\ PluginsIdle
  /\ CacheKeysIdle
  /\ PidLockIdle
  /\ RestoreIdle
  /\ GitIdle

Next ==
  \/ \E w \in Watchers, k \in Kinds, p \in Paths : FsEvent(w, k, p)
  \/ \E w \in Watchers, k \in Kinds : onFileChange(w, k)
  \/ \E p \in DOMAIN runs, hit \in BOOLEAN : MiddlewareLookup(p, hit)
  \/ \E p \in DOMAIN runs, code \in {0, 1} : ProcessExit(p, code)
  \/ \E p \in DOMAIN runs : MiddlewareAfterNext(p)
  \/ Pause
  \/ Resume
  \/ \E a \in Artifacts \cup {"unknown"} : ComputeArtifact(a)
  \/ ComputeAllArtifacts
  \/ shutdown
  \/ exit

Spec == Init /\ [][Next]_vars

\* one execute() of a chain, for every configuration of the cache
InitRunner ==
  /\ DaemonInit
  /\ plugins = {}
  /\ middlewares \in Chains
  /\ index = -1
  /\ isAborted = FALSE
  /\ frames = [i \in DOMAIN middlewares |-> [pc |-> "idle", child |-> 0]]
  /\ entered = <<>>
  /\ execution = "idle"
  /\ environment \in [disable : BOOLEAN, read : EnvValues, write : EnvValues]
  /\ environment.disable => environment.read = "unset" /\ environment.write = "unset"
  /\ options \in [read : BOOLEAN, write : BOOLEAN]
  /\ \E as \in CommandArtifacts :
       /\ cacheObjects \in [as -> {"absent", "valid", "corrupt"}]
       /\ outputs \in [as -> {"absent", "same", "differs"}]
       /\ \A a \in as : outputs[a] = "same" => cacheObjects[a] = "valid"
  /\ unpacked = {}
  /\ packed = {}
  /\ commandRuns = 0
  /\ generation = 1
  /\ GeneratorIdle
  /\ LockWriterIdle
  /\ ListenerIdle
  /\ ReloadIdle
  /\ LayersIdle
  /\ PluginsIdle
  /\ CacheKeysIdle
  /\ PidLockIdle
  /\ RestoreIdle
  /\ GitIdle

NextRunner ==
  \/ execute
  \/ executeSettles
  \/ \E i \in DOMAIN middlewares : PluginAbort(i)
  \/ \E i \in DOMAIN middlewares : PluginNext(i)
  \/ \E i \in DOMAIN middlewares : PluginResume(i)
  \/ \E i \in DOMAIN middlewares : PluginReturn(i)
  \/ \E i \in DOMAIN middlewares, code \in {0, 1}, produced \in SUBSET DOMAIN outputs :
       TerminalExit(i, code, produced)
  \/ \E i \in DOMAIN middlewares : CacheRead(i)
  \/ \E i \in DOMAIN middlewares, failed \in SUBSET DOMAIN outputs :
       CacheAfterNext(i, failed)

SpecRunner == InitRunner /\ [][NextRunner]_vars

\* a generate and the generate that follows it, for one command behind the
\* local cache middleware
InitRegenerate ==
  /\ InitRunner
  /\ middlewares = <<LocalCache, Terminal>>

NextRegenerate ==
  \/ execute
  \/ executeSettles
  \/ \E i \in DOMAIN middlewares, code \in {0, 1}, produced \in SUBSET DOMAIN outputs :
       TerminalExit(i, code, produced)
  \/ \E i \in DOMAIN middlewares : CacheRead(i)
  \/ \E i \in DOMAIN middlewares, failed \in SUBSET DOMAIN outputs :
       CacheAfterNext(i, failed)
  \/ executeAgain

SpecRegenerate == InitRegenerate /\ [][NextRegenerate]_vars

\* the CLI from boot to its exit or to the start of the daemon
InitGenerator ==
  /\ DaemonInit
  /\ plugins = {}
  /\ RunnerIdle
  /\ LockWriterIdle
  /\ ListenerIdle
  /\ ReloadIdle
  /\ LayersIdle
  /\ PluginsIdle
  /\ CacheKeysIdle
  /\ PidLockIdle
  /\ RestoreIdle
  /\ GitIdle
  /\ taskTree \in TaskTrees
  /\ taskStatus = [n \in DOMAIN taskTree |-> "pending"]
  /\ taskEvents = [n \in DOMAIN taskTree |-> <<>>]
  /\ artifacts \in [DOMAIN taskTree -> {"absent", "old"}]
  /\ \A n \in DOMAIN taskTree : taskTree[n].type # "command" => artifacts[n] = "absent"
  /\ watch \in BOOLEAN
  /\ cliPhase = "boot"
  /\ exitCode = 0
  /\ entryPoint \in EntryPoints
  /\ exitCalls = 0

NextGenerator ==
  \/ generate
  \/ \E n \in DOMAIN taskTree, ok \in BOOLEAN, written \in Written :
       CommandSettles(n, ok, written)
  \/ \E n \in DOMAIN taskTree : ParallelContinues(n)
  \/ \E n \in DOMAIN taskTree : SerialContinues(n)
  \/ generateResolved
  \/ generateRejected
  \/ exit

\* commands terminate and continuations run: every enabled step is taken
SpecGenerator == InitGenerator /\ [][NextGenerator]_vars /\ WF_vars(NextGenerator)

\* overlapping calls of one of the lock file writers
InitLockWriter ==
  /\ DaemonInit
  /\ plugins = {}
  /\ RunnerIdle
  /\ GeneratorIdle
  /\ ListenerIdle
  /\ ReloadIdle
  /\ LayersIdle
  /\ PluginsIdle
  /\ CacheKeysIdle
  /\ PidLockIdle
  /\ RestoreIdle
  /\ GitIdle
  /\ lockWriter \in LockWriters
  /\ writePromise = 0
  /\ callerPc = [c \in Callers |-> "idle"]
  /\ awaited = [c \in Callers |-> 0]
  /\ settledWrites = {}
  /\ lockFile = {}
  /\ existing = [c \in Callers |-> {}]

NextLockWriter ==
  \/ \E c \in Callers : CallWriter(c)
  \/ \E c \in Callers : PreviousSettled(c)
  \/ \E c \in Callers : ReadExisting(c)
  \/ \E c \in Callers : WriteMerged(c)
  \/ \E c \in Callers : WriterReturns(c)

SpecLockWriter == InitLockWriter /\ [][NextLockWriter]_vars

\* the lock file listener from the boot of the CLI on
InitLockListener ==
  /\ DaemonInit
  /\ plugins = {}
  /\ RunnerIdle
  /\ LockWriterIdle
  /\ taskTree = <<EmptyTask>>
  /\ taskStatus = <<"pending">>
  /\ taskEvents = <<(<<>>)>>
  /\ artifacts = <<"absent">>
  /\ watch \in BOOLEAN
  /\ cliPhase = "boot"
  /\ exitCode = 0
  /\ entryPoint = "cli"
  /\ exitCalls = 0
  /\ emitterPhase = "boot"
  /\ config = 0
  /\ lockFilePath = ""
  /\ isInGenerateMode = FALSE
  /\ lockContent \in LockContents
  /\ rebuilds = 0
  /\ lastEvent = "none"
  /\ nEvents = 0
  /\ ReloadIdle
  /\ LayersIdle
  /\ PluginsIdle
  /\ CacheKeysIdle
  /\ PidLockIdle
  /\ RestoreIdle
  /\ GitIdle

NextLockListener ==
  \/ \E v \in ConfigVersions, mcp \in BOOLEAN : OnConfigLoaded(v, mcp)
  \/ OnGenerateStarted
  \/ OnAllTasksComplete
  \/ GenerateFailed
  \/ OnBegin
  \/ OnEnd
  \/ OnInitialized
  \/ \E c \in LockContents : LockFileEdited(c)

SpecLockListener == InitLockListener /\ [][NextLockListener]_vars

\* the daemon under changes of its configuration file
InitReload ==
  /\ Init
  /\ plugins = {}

NextReload ==
  \/ \E valid \in BOOLEAN : ConfigFileChanged(valid)
  \/ \E ok \in BOOLEAN : WatchersRestarted(ok)
  \/ \E v \in 1..(MaxChanges + 1) : WatcherEvent(v)
  \/ \E v \in 1..(MaxChanges + 1) : WatcherPipeline(v)
  \/ ComputePipeline

SpecReload == InitReload /\ [][NextReload]_vars

\* the command plugin applied to the commands of a configuration, and the walk
\* of the tree it returns
InitLayers ==
  /\ DaemonInit
  /\ PluginsIdle
  /\ CacheKeysIdle
  /\ PidLockIdle
  /\ RestoreIdle
  /\ GitIdle
  /\ plugins = {}
  /\ RunnerIdle
  /\ GeneratorIdle
  /\ LockWriterIdle
  /\ ListenerIdle
  /\ ReloadIdle
  /\ \E n \in 1..MaxCommands : commandTasks \in [1..n -> DependencyObjects]
  /\ byLevel = <<>>
  /\ treePhase = "plugin"
  /\ layer = 0
  /\ begun = {}
  /\ finished = {}
  /\ thrown = <<>>

NextLayers ==
  \/ organizeTasksInLayers
  \/ LayerStarts
  \/ \E n \in DOMAIN commandTasks : CommandFinishes(n)
  \/ WalkResolves

SpecLayers == InitLayers /\ [][NextLayers]_vars

\* generate from the task of a configuration to the task handed to processTask
InitPlugins ==
  /\ DaemonInit
  /\ CacheKeysIdle
  /\ PidLockIdle
  /\ RestoreIdle
  /\ GitIdle
  /\ plugins = {}
  /\ RunnerIdle
  /\ GeneratorIdle
  /\ LockWriterIdle
  /\ ListenerIdle
  /\ ReloadIdle
  /\ LayersIdle
  /\ \E n \in 0..MaxPlanned :
       \E ts \in [1..n -> ConfiguredCommands] : originalTask = Parallel(ts)
  /\ finalTask = originalTask
  /\ commandPlugins \in PluginLists
  /\ shadowdogTag \in {"", "t"}
  /\ "shadowdog-tag" \notin Range(commandPlugins) => shadowdogTag = ""
  /\ pluginThrew = FALSE

NextPlugins ==
  \/ TagCommand
  \/ RakeCommand
  \/ TreeCommand

SpecPlugins == InitPlugins /\ [][NextPlugins]_vars

\* computeCache called for two sets of inputs
InitCacheKeys ==
  /\ DaemonInit
  /\ PidLockIdle
  /\ RestoreIdle
  /\ GitIdle
  /\ plugins = {}
  /\ RunnerIdle
  /\ GeneratorIdle
  /\ LockWriterIdle
  /\ ListenerIdle
  /\ ReloadIdle
  /\ LayersIdle
  /\ PluginsIdle
  /\ cacheInputs \in CacheInputs \X CacheInputs
  /\ cacheKeys = <<>>

NextCacheKeys == ComputeCacheKeys

SpecCacheKeys == InitCacheKeys /\ [][NextCacheKeys]_vars

\* a process with the shadowdog-lock plugin beside another one that uses the
\* same lock file
InitPidLock ==
  /\ DaemonInit
  /\ RestoreIdle
  /\ GitIdle
  /\ plugins = {}
  /\ RunnerIdle
  /\ GeneratorIdle
  /\ LockWriterIdle
  /\ ListenerIdle
  /\ ReloadIdle
  /\ LayersIdle
  /\ PluginsIdle
  /\ CacheKeysIdle
  /\ pidLock \in {"none", "other"}
  /\ counter = 0
  /\ lockRuns = [c \in LockCommands |-> "idle"]
  /\ lockProcess = "running"
  /\ exitStatus = -1
  /\ lockFirst \in BOOLEAN

NextPidLock ==
  \/ \E c \in LockCommands : BeginEmitted(c)
  \/ \E c \in LockCommands : LockMiddleware(c)
  \/ \E c \in LockCommands : AbortedBeforeLock(c)
  \/ \E c \in LockCommands : CommandSettled(c)
  \/ ProcessExits
  \/ OtherProcessBegins
  \/ OtherProcessEnds

SpecPidLock == InitPidLock /\ [][NextPidLock]_vars

\* restoreCache invocations that overlap in time, in one process or several
InitRestore ==
  /\ DaemonInit
  /\ GitIdle
  /\ plugins = {}
  /\ RunnerIdle
  /\ GeneratorIdle
  /\ LockWriterIdle
  /\ ListenerIdle
  /\ ReloadIdle
  /\ LayersIdle
  /\ PluginsIdle
  /\ CacheKeysIdle
  /\ PidLockIdle
  /\ now = 0
  /\ restores = [r \in Invocations |-> [pc |-> "idle", temp |-> NoTemp]]

NextRestore ==
  \/ \E r \in Invocations, mw \in CacheMiddlewares, k \in CacheFileNames :
       ExtractToTemp(r, mw, k)
  \/ \E r \in Invocations : RemoveTemp(r)
  \/ ClockTicks

SpecRestore == InitRestore /\ [][NextRestore]_vars

\* the middleware of shadowdog-git under rebases; a changed path may be that
\* of a file the rebase deleted
InitGit ==
  /\ DaemonInit
  /\ plugins = {}
  /\ RunnerIdle
  /\ GeneratorIdle
  /\ LockWriterIdle
  /\ ListenerIdle
  /\ ReloadIdle
  /\ LayersIdle
  /\ PluginsIdle
  /\ CacheKeysIdle
  /\ PidLockIdle
  /\ RestoreIdle
  /\ rebasing = FALSE
  /\ timeoutId = "null"
  /\ intervals = 0
  /\ gitPending = <<>>
  /\ touches = [f \in GitPaths |-> 0]
  /\ onDisk \in [GitPaths -> BOOLEAN]
  /\ gitProcess = "running"
  /\ nGitEvents = 0
  /\ nRebases = 0

NextGit ==
  \/ \E path \in GitPaths : GitMiddleware(path)
  \/ \E crash \in BOOLEAN : Poll(crash)
  \/ RebaseStarts
  \/ RebaseEnds

\* the timer keeps firing and every rebase ends
SpecGit ==
  /\ InitGit
  /\ [][NextGit]_vars
  /\ WF_vars(\E crash \in BOOLEAN : Poll(crash))
  /\ WF_vars(RebaseEnds)

\* ------------------------------------------------------------------------
\* Claims about the daemon (checked under Spec)
\* ------------------------------------------------------------------------
FsRuns == {p \in DOMAIN runs : runs[p].trigger = "fs"}

RpcRuns == {p \in DOMAIN runs : runs[p].trigger = "rpc"}

\* C1: when a debounced filesystem event is handled while a Command started by
\* an earlier event is still running, that Command's process group has been
\* killed before the new pipeline enters the terminal executor (spawns).
C1_EarlierRunKilledBeforeSpawn ==
  \A q \in FsRuns :
    runs[q].spawned => \A p \in runs[q].over \cap FsRuns : runs[p].phase # "running"

\* C2: a run that was still running when the file was modified again never
\* writes its output and never emits end, so the latest end is not its own.
C2_SupersededRunNeverEnds ==
  \A q \in FsRuns :
    \A p \in runs[q].over \cap FsRuns :
      /\ ~runs[p].wrote
      /\ "end" \notin Range(runs[p].evs)
      /\ lastEnd # p

\* C3: a computeArtifact request kills the pending processes first: a Command
\* started by an earlier filesystem event is terminated before the pipeline of
\* the request enters the terminal executor.
C3_ComputeKillsPendingFirst ==
  \A q \in RpcRuns :
    runs[q].spawned => \A p \in runs[q].over \cap FsRuns : runs[p].phase # "running"

\* C4: on resume, every path that changed while paused is replayed (touched, so
\* that it re-enters the watch pipeline) and the pending set is cleared.
C4_ResumeReplaysEveryChange ==
  [][(isPaused /\ ~isPaused') =>
       /\ \A f \in droppedChanges :
            \E w \in Watchers : f \in WatcherFiles[w] /\ timers'[w]["change"] # NoPath
       /\ pendingChangedFiles' = <<>>]_vars

\* C5: while paused, a debounced filesystem event records its path in the
\* pending-change set (once) and does nothing else: no kill, no begin, no run.
C5_PausedChangeIsRecorded ==
  [][\A w \in Watchers, k \in Kinds :
       (isPaused /\ timers[w][k] # NoPath /\ timers'[w][k] = NoPath) =>
         /\ timers[w][k] \in Range(pendingChangedFiles')
         /\ Cardinality({i \in DOMAIN pendingChangedFiles' :
                           pendingChangedFiles'[i] = timers[w][k]}) = 1
         /\ UNCHANGED <<runs, pendingTasks, watcherTasks, lastEnd>>]_vars

\* C6: a computeArtifact request handled while the daemon is paused kills no
\* process, starts no pipeline and leaves the daemon's state as it was.
C6_ComputeWhilePausedIsNoop ==
  [][(isPaused /\ request' = "computeArtifact" /\ nInputs' = nInputs + 1) =>
       UNCHANGED <<plugins, isPaused, pendingTasks, watcherTasks, sameArray, timers,
                   runs, lastEnd, mcpPaused, pendingChangedFiles, droppedChanges>>]_vars

\* C6 witness: the request was handled while paused and a command was running
C6_Witness ==
  /\ request = "computeArtifact"
  /\ isPaused
  /\ Alive(runs) # {}

\* C14: on shutdown the daemon invokes the 'exit' subscribers, kills every
\* remaining supervised process group and exits with status 0: when the process
\* has exited no spawned child is alive.
C14_NoChildSurvivesShutdown ==
  cliPhase = "exited" =>
    /\ exitCode = 0
    /\ exitCalls = 1
    /\ Alive(runs) = {}

\* C15: shutdown is idempotent: a trigger that arrives when a shutdown is under
\* way changes nothing, and the 'exit' subscribers are invoked at most once.
C15_ShutdownRunsOnce ==
  /\ exitCalls <= 1
  /\ isShuttingDown <=> exitCalls = 1
  /\ signals >= 1 => exitCalls = 1

\* C15 witness: two triggers arrived, the subscribers were invoked once and the
\* process has exited
C15_Witness ==
  /\ signals = 2
  /\ exitCalls = 1
  /\ cliPhase = "exited"

\* ------------------------------------------------------------------------
\* Claims about the Task Runner and the cache middleware (checked under
\* SpecRunner)
\* ------------------------------------------------------------------------
\* the lookup of the cache middleware finds every declared artifact (at least
\* one) with reading in effect
AllArtifactsHit ==
  /\ ~CacheDisabled(environment)
  /\ readCache(environment, options)
  /\ DOMAIN cacheObjects # {}
  /\ \A a \in DOMAIN cacheObjects : CacheHit(cacheObjects, a)

\* C7: when a Command with N artifacts is run with read in effect and all N hit
\* in the cache, the cache middleware calls abort() without calling next(), and
\* the terminal executor (the shell command) is not invoked.
C7_AllHitsAbortBeforeTerminal ==
  \A c \in DOMAIN middlewares :
    (/\ middlewares[c] = LocalCache
     /\ frames[c].pc \notin {"idle", "body"}
     /\ AllArtifactsHit)
    => /\ isAborted
       /\ frames[c] = [pc |-> "returned", child |-> 0]
       /\ frames[Len(middlewares)].pc = "idle"
       /\ commandRuns = 0

\* C7 witness: behind another middleware, the cache middleware found both
\* artifacts of the command and the execution resolved without the command
C7_Witness ==
  /\ execution = "resolved"
  /\ middlewares = <<Plugin, LocalCache, Terminal>>
  /\ DOMAIN cacheObjects = {"a", "b"}
  /\ AllArtifactsHit
  /\ frames[2].pc = "returned"
  /\ unpacked # {}
  /\ commandRuns = 0

\* C8: middlewares are entered in registration order, the terminal executor
\* last; and abort() is sticky: once isAborted is set it stays set and no
\* further frame, middleware or terminal executor, is entered, whoever calls
\* next() afterwards.
C8_OrderedEntryStickyAbort ==
  [][/\ \A j \in DOMAIN entered' : entered'[j] = j
     /\ \A j \in DOMAIN entered' :
          middlewares[entered'[j]] = Terminal => j = Len(middlewares)
     /\ isAborted => /\ isAborted'
                     /\ entered' = entered
                     /\ commandRuns' = commandRuns]_vars

\* C8 witness: a middleware called abort() and then next(); the call entered
\* no frame although middlewares were left, and the middleware went on
C8_Witness ==
  /\ isAborted
  /\ \E i \in DOMAIN middlewares :
       /\ middlewares[i] = Plugin
       /\ frames[i] = [pc |-> "after", child |-> 0]
       /\ Len(entered) = i
       /\ i < Len(middlewares)

\* the position of the cache middleware in the chain, 0 if it is not there
CachePosition ==
  IF \E c \in DOMAIN middlewares : middlewares[c] = LocalCache
  THEN CHOOSE c \in DOMAIN middlewares : middlewares[c] = LocalCache
  ELSE 0

\* every declared artifact (at least one) is on disk with the SHA of its
\* cached content, and reading is in effect
AllArtifactsMatch ==
  /\ AllArtifactsHit
  /\ \A a \in DOMAIN outputs : cacheObjects[a] = "valid" /\ outputs[a] = "same"

\* C11: when every artifact of the Command is on disk with the content SHA of
\* its cache object, the lookup of the cache middleware unpacks nothing over the
\* artifacts, leaves them as they are, and aborts, so the command is not run.
C11_MatchingShaSkipsRestore ==
  [][(/\ CachePosition # 0
      /\ frames[CachePosition].pc = "body"
      /\ frames'[CachePosition].pc # "body"
      /\ AllArtifactsMatch)
     => /\ unpacked' = {}
        /\ outputs' = outputs
        /\ isAborted'
        /\ frames'[Len(middlewares)].pc = "idle"
        /\ commandRuns' = 0]_vars

\* C11 witness: the lookup is over, both artifacts were already in place,
\* nothing was unpacked and the execution resolved without the command
C11_Witness ==
  /\ execution = "resolved"
  /\ CachePosition # 0
  /\ frames[CachePosition].pc = "returned"
  /\ DOMAIN outputs = {"a", "b"}
  /\ AllArtifactsMatch
  /\ unpacked = {}
  /\ commandRuns = 0

\* C12: the write path runs only after next() returned Ok: when the command
\* exited non-zero (or was killed) the rejection passes through the cache
\* middleware and no artifact is packed into the cache.
C12_NoCacheWriteAfterFailure ==
  frames[Len(middlewares)].pc = "threw" =>
    /\ packed = {}
    /\ CachePosition # 0 => frames[CachePosition].pc \in {"awaiting", "threw"}

\* C12 witness: the command failed behind a cache middleware with writing in
\* effect and an artifact on disk, and the rejection reached execute()
C12_Witness ==
  /\ execution = "rejected"
  /\ CachePosition # 0
  /\ frames[CachePosition].pc = "threw"
  /\ ~CacheDisabled(environment)
  /\ writeCache(environment, options)
  /\ \E a \in DOMAIN outputs : outputs[a] # "absent"
  /\ packed = {}

\* the terminal executor ran in this execution and its command exited 0
TerminalSucceeded ==
  \E i \in DOMAIN middlewares : middlewares[i] = Terminal /\ frames[i].pc = "returned"

\* C32: a cache middleware stores artifacts only in an execution whose
\* terminal executor ran and succeeded (checked under SpecRunner).
C32_StoreOnlyAfterSuccessfulCommand == packed # {} => TerminalSucceeded

\* the cache middleware at position i leaves its read path in this step
ReadPathStep(i) ==
  /\ middlewares[i] = LocalCache
  /\ frames[i].pc = "body"
  /\ frames'[i].pc # "body"

\* an object of the cache does not decompress, and the lookup is in effect
UnpackFails ==
  /\ ~CacheDisabled(environment)
  /\ readCache(environment, options)
  /\ \E a \in DOMAIN cacheObjects : cacheObjects[a] = "corrupt"

CommandTasks == {n \in DOMAIN taskTree : taskTree[n].type = "command"}

\* the positions a task has in some tree
TaskIds == UNION {DOMAIN t : t \in TaskTrees}

\* the events of every run are a prefix of begin, then one of end and error
EventsInOrder ==
  \A n \in CommandTasks :
    taskEvents[n] \in {<<>>, <<"begin">>, <<"begin", "end">>, <<"begin", "error">>}

FailedCommands == {n \in CommandTasks : "error" \in Range(taskEvents[n])}

C17_FailFastUnlessWatching ==
  /\ (~watch /\ FailedCommands # {}) =>
       /\ taskStatus[1] # "resolved"
       /\ cliPhase \in {"exiting", "exited"} => exitCode = 1
  /\ watch =>
       /\ cliPhase \notin {"exiting", "exited"}
       /\ \A n \in DOMAIN taskTree : taskStatus[n] # "rejected"

\* C22: before executing a command the generator deletes every pre-existing
\* declared artifact, so after a successful run (begin, then end) the artifact
\* path holds no content from before the run.
C22_SuccessfulRunLeavesOnlyFreshContent ==
  \A n \in CommandTasks : "end" \in Range(taskEvents[n]) => artifacts[n] # "old"

\* C23: when the command has returned successfully and its declared artifact
\* is missing or a 0-byte file, the command fails with an error and emits no end.
C23_MissingArtifactIsAnError ==
  \A n \in CommandTasks :
    "end" \in Range(taskEvents[n]) => artifacts[n] \notin {"absent", "empty"}

\* ------------------------------------------------------------------------
\* Claims about the lock file listener (checked under SpecLockListener)
\* ------------------------------------------------------------------------

\* the step delivers the event e to the listener
Delivers(e) == nEvents' = nEvents + 1 /\ lastEvent' = e

\* C18: the lock file is rebuilt after allTasksComplete and after each end
\* received in daemon mode; an end received during the initial generate phase,
\* and a configLoaded or initialized event on a well-formed lock file, do not
\* rebuild it.
C18_RebuildOnlyAfterCompletion ==
  [][/\ Delivers("allTasksComplete") => rebuilds' = rebuilds + 1
     /\ (Delivers("end") /\ emitterPhase = "daemon") => rebuilds' = rebuilds + 1
     /\ (Delivers("end") /\ emitterPhase = "generate") => rebuilds' = rebuilds
     /\ (/\ Delivers("configLoaded") \/ Delivers("initialized")
         /\ lockContent = "well-formed") => rebuilds' = rebuilds]_vars

\* C18 witness: a watching run whose lock file was rebuilt twice, by
\* allTasksComplete and by the end received in daemon mode after it
C18_Witness ==
  /\ emitterPhase = "daemon"
  /\ lastEvent = "end"
  /\ rebuilds = 2
  /\ nEvents = 5

\* ------------------------------------------------------------------------
\* Claims about the reload of the configuration (checked under SpecReload)
\* ------------------------------------------------------------------------

\* C19: when the configuration file changes to a version that fails to load or
\* validate, the daemon does not terminate and the previous configuration stays
\* active: currentConfig and the open watchers are unchanged by the change, and
\* no pipeline started afterwards uses a version that failed to load.
C19_InvalidConfigKeepsPrevious ==
  /\ [][(fileVersion' # fileVersion /\ fileVersion' \in invalidVersions')
        => /\ currentConfig' = currentConfig
           /\ currentWatchers' = currentWatchers
           /\ watching' = watching
           /\ cliPhase' = cliPhase]_vars
  /\ [](/\ currentConfig \notin invalidVersions
        /\ watching \cap invalidVersions = {}
        /\ \A pl \in pipelines : pl.config \notin invalidVersions
        /\ ProcessAlive)

\* C19 witness: the last change of the file failed to load, and since then a
\* watcher callback and a computeArtifact request have each started a pipeline
\* with the previous configuration
C19_Witness ==
  /\ fileVersion \in invalidVersions
  /\ currentConfig = fileVersion - 1
  /\ [trigger |-> "fs", config |-> currentConfig] \in pipelines
  /\ [trigger |-> "rpc", config |-> currentConfig] \in pipelines

\* the last change of the file loaded, and the watchers were rebuilt from it
ReloadSucceeded ==
  /\ currentConfig > 1
  /\ currentConfig = fileVersion
  /\ currentWatchers = currentConfig
  /\ restarts = 0

\* C34: after a successful reload only the watchers of the new configuration
\* are open, and every pipeline a watcher callback starts from then on uses
\* the new configuration: no handler of a previous configuration fires.
C34_OnlyNewHandlersAfterReload ==
  /\ [](ReloadSucceeded => watching = {currentConfig})
  /\ [][ReloadSucceeded =>
          \A pl \in pipelines' \ pipelines :
             pl.trigger = "fs" => pl.config = currentConfig]_vars

\* ------------------------------------------------------------------------

\* the commands that declare one of the files of command c as an output
ProducersFor(c) ==
  {n \in DOMAIN commandTasks :
     n # c /\ commandTasks[n].outputs \cap Range(commandTasks[c].files) # {}}

\* C20: the layering is a serial of parallel layers in which every command
\* that has another command's output among its inputs is in a strictly later
\* layer than that producer, so the producer has finished when the consumer
\* begins.
C20_ProducerFinishedBeforeConsumer ==
  \A c \in begun : \A n \in ProducersFor(c) : n \in finished

\* positions in the input list increase along the sequence
InInputOrder(seq) == \A i, j \in DOMAIN seq : i < j => seq[i] < seq[j]

\* C37: within each parallel layer the commands are in the same relative
\* order as in the list given to the plugin.
C37_LayersKeepInputOrder ==
  treePhase \in {"walking", "walked"} =>
    \A l \in DOMAIN byLevel :
      InInputOrder(levelArray(commandTasks, topologicalSort(commandTasks), l))

MutualPairs ==
  {pr \in (DOMAIN commandTasks) \X (DOMAIN commandTasks) :
     /\ pr[1] # pr[2]
     /\ pr[1] \in ProducersFor(pr[2])
     /\ pr[2] \in ProducersFor(pr[1])}

\* the outputs of command n that command c declares as files
OutputsUsedBy(n, c) == commandTasks[n].outputs \cap Range(commandTasks[c].files)

\* C21: when two commands each declare the other's output as input, generate
\* fails with an error that names both outputs, and no command is executed.
C21_CycleFailsNamingOutputs ==
  (MutualPairs # {} /\ treePhase # "plugin") =>
    /\ treePhase = "circular"
    /\ begun = {}
    /\ \A pr \in MutualPairs : OutputsUsedBy(pr[1], pr[2]) \subseteq Range(thrown)

\* ------------------------------------------------------------------------
\* Claims about the lock file writer (checked under SpecLockWriter)
\* ------------------------------------------------------------------------
\* C10: at any instant at most one lock-file write is in flight, however many
\* callers overlap.
C10_AtMostOneWriteInFlight == Cardinality(WritesInFlight) <= 1

\* ------------------------------------------------------------------------
\* Claims about killed tasks and the requests of the MCP server (checked
\* under Spec)
\* ------------------------------------------------------------------------
\* a step in which the process of run p ends without exit code 0: the exit
\* handler sees the null code of a signalled process like any other failure
EndsKilled(p) ==
  /\ runs[p].phase \in {"running", "killed"}
  /\ runs'[p].phase = "done"
  /\ ~runs'[p].wrote

\* a step that handles a trigger: a debounce timer fired or a request arrived
TriggerStep == timers' # timers \/ nInputs' # nInputs

Started == {p \in DOMAIN runs' : p \notin DOMAIN runs}

\* C25: a compute-all request that arrives while the daemon is not paused
\* kills the pending tasks and starts the pipeline of every configured
\* artifact; one that arrives while it is paused starts nothing.
C25_ComputeAllRunsEveryArtifact ==
  [][(nInputs' # nInputs /\ request' = "computeAllArtifacts") =>
       IF isPaused
       THEN runs' = runs
       ELSE /\ Alive(runs') \cap Alive(runs) = {}
            /\ \A a \in getAllArtifacts : \E p \in Started : runs'[p].cmd = a]_vars

\* the process groups running for a command: spawned, not killed, not exited
RunningFor(a) == {p \in DOMAIN runs : runs[p].cmd = a /\ runs[p].phase = "running"}

\* C30: at any instant at most one process group is running for a command,
\* whichever kind of trigger started each run.
C30_AtMostOneRunPerCommand == \A a \in Artifacts : Cardinality(RunningFor(a)) <= 1

\* the children spawned by watcher callbacks whose exit was not yet observed
LiveWatcherChildren ==
  {p \in DOMAIN runs : /\ runs[p].trigger = "fs"
                        /\ runs[p].phase \in {"running", "killed"}}

\* C31: the list that killPendingTasks iterates holds exactly the children
\* that watcher callbacks spawned and that have not exited.
C31_PendingListIsLiveChildren == Range(pendingTasks) = LiveWatcherChildren

\* the debounced handlers of watcher w whose trailing call is pending
ArmedHandlers(w) == {k \in Kinds : timers[w][k] # NoPath}

\* C33: the events of one debounce interval on a watcher, whatever their
\* kinds, are answered by a single handler invocation: a watcher never has
\* two trailing calls pending at once (checked under Spec).
C33_OneInvocationPerWatcherInterval ==
  \A w \in Watchers : Cardinality(ArmedHandlers(w)) <= 1

\* ------------------------------------------------------------------------
\* Claims about the command plugins (checked under SpecPlugins)
\* ------------------------------------------------------------------------
\* C26: whatever plugins are configured and however far the reduce has come,
\* every artifact of the task is an artifact of the task generate built.
C26_PluginsAddNoArtifacts == artifactsOf(finalTask) \subseteq artifactsOf(originalTask)

\* C26 witness: the reduce is over; the task was layered, two rake commands
\* were fused into one, and a command was dropped with its artifact
C26_Witness ==
  /\ commandPlugins = <<>>
  /\ ~pluginThrew
  /\ finalTask.type = "serial"
  /\ artifactsOf(finalTask) # {}
  /\ artifactsOf(finalTask) # artifactsOf(originalTask)
  /\ \E i \in DOMAIN finalTask.tasks :
       \E j \in DOMAIN finalTask.tasks[i].tasks :
         Len(finalTask.tasks[i].tasks[j].config.args) = 2

\* the command tasks of a task
RECURSIVE commandsOf(_)
commandsOf(task) ==
  IF task.type = "command" THEN {task}
  ELSE UNION {commandsOf(task.tasks[i]) : i \in DOMAIN task.tasks}

\* config.command: 'bundle exec rake' and the rake tasks for a rake command;
\* the other commands of the model all run the same script
commandString(cfg) ==
  IF cfg.rake THEN <<"bundle", "exec", "rake">> \o cfg.args ELSE <<"script">>

\* the files as computeCache reads them: each path with the content on disk,
\* which does not change between the run and the writing of the lock file
filesOnDisk(files) == [i \in DOMAIN files |-> [path |-> <<files[i]>>, content |-> <<"c">>]]

\* computeFileCacheName(currentCache, fileName): the bytes fed to the HMAC
computeFileCacheName(currentCache, fileName) == currentCache \o <<fileName>>

\* the object name the cache middleware uses for an artifact of the command
\* task it is given: computeCache(files, environment, config.command)
cacheObjectName(t, output) ==
  computeFileCacheName(
    computeCache([files |-> filesOnDisk(t.files), environment |-> Undefined,
                  command |-> commandString(t.config)]),
    output)

\* createArtifactEntry for an artifact of a command of the configuration:
\* computeCache(processedFiles, watcherConfig.environment, commandConfig.command)
cacheIdentifier(c, output) ==
  computeFileCacheName(
    computeCache([files |-> filesOnDisk(c.files), environment |-> Undefined,
                  command |-> commandString(c.config)]),
    output)

\* regenerateLockFile: the identifiers recorded for an output, one for each
\* command of the configuration that declares it
lockFileIdentifiers(output) ==
  {cacheIdentifier(originalTask.tasks[i], output) :
     i \in {j \in DOMAIN originalTask.tasks :
              output \in Range(originalTask.tasks[j].config.artifacts)}}

\* C39: for every artifact of a command that generate runs, the object name
\* the cache middleware uses is the cache identifier the lock file records for
\* that artifact.
C39_LockIdentifierIsCacheObjectName ==
  (commandPlugins = <<>> /\ ~pluginThrew) =>
    \A t \in commandsOf(finalTask) :
      \A output \in Range(t.config.artifacts) :
        cacheObjectName(t, output) \in lockFileIdentifiers(output)

\* ------------------------------------------------------------------------
\* Claims about cache keys (checked under SpecCacheKeys)
\* ------------------------------------------------------------------------
\* C27: two cache keys are equal exactly when the inputs of the two calls are
\* equal: the same paths with the same contents, the same environment value
\* and the same command.
C27_KeysEqualIffInputsEqual ==
  cacheKeys # <<>> => (cacheKeys[1] = cacheKeys[2] <=> cacheInputs[1] = cacheInputs[2])

\* ------------------------------------------------------------------------
\* Claims about the PID lock (checked under SpecPidLock)
\* ------------------------------------------------------------------------
\* a step in which the lock middleware of command c decides
MiddlewareDecides(c) == lockRuns[c] = "begun" /\ lockRuns'[c] \in {"running", "blocked"}

\* C28: when the chain of a command reaches the lock middleware and the lock
\* file holds the pid of another process, next is not called, then or later,
\* and the process exits with status 1; when there is no lock file or it holds
\* the pid of this process, next is called.
C28_ForeignLockBlocksAndExits ==
  /\ [][\A c \in LockCommands :
          /\ MiddlewareDecides(c) =>
               IF pidLock = "other"
               THEN lockRuns'[c] = "blocked" /\ lockProcess' = "exiting" /\ exitStatus' = 1
               ELSE lockRuns'[c] = "running"
          /\ lockRuns[c] = "blocked" => lockRuns'[c] = "blocked"]_vars
  /\ [](lockProcess = "exited" => exitStatus = 1)

\* C28 witness: one command ran under the lock of this process and ended;
\* a later one found the lock of another process and the process exited
C28_Witness ==
  /\ lockProcess = "exited"
  /\ exitStatus = 1
  /\ \E c \in LockCommands : lockRuns[c] = "blocked"
  /\ \E c \in LockCommands : lockRuns[c] = "done"

\* a step in which 'end' or 'error' is emitted for command c
EndOrError(c) == lockRuns[c] \in {"begun", "running"} /\ lockRuns'[c] = "done"

C38_TempDirectoriesAreUnique ==
  \A r1, r2 \in Invocations :
    (r1 # r2 /\ restores[r1].pc = "extracting" /\ restores[r2].pc = "extracting")
      => restores[r1].temp # restores[r2].temp

\* ------------------------------------------------------------------------
\* Claims about the rebase guard (checked under SpecGit)
\* ------------------------------------------------------------------------
\* C40: every path made pending during a rebase is eventually touched
\* exactly once, with the pending list then empty; no path is touched twice;
\* and at most one polling timer is armed at any time.
C40_PendingPathsTouchedOnce ==
  /\ [](intervals <= 1)
  /\ [](\A f \in GitPaths : touches[f] <= 1)
  /\ \A f \in GitPaths :
       (f \in Range(gitPending)) ~> (gitPending = <<>> /\ ~rebasing /\ touches[f] = 1)

====
